---------------------------- MODULE Spec2Model ----------------------------
(***************************************************************************)
(* University geocoder: the campus-name parser (src/parsers) and the POI   *)
(* reconciler (src/processors/poi_processor.py).                           *)
(*                                                                         *)
(* Strings are sequences of characters.  A character is written as a short *)
(* ASCII token, one token per code point of the source:                    *)
(*   "xiao" 校  "qu" 区   "yuan2" 园  "yuan4" 院  "xue" 学  "fen" 分        *)
(*   "zhu" 主   "ben" 本  "bu" 部     "fu" 附     "shu" 属  "yi" 医         *)
(*   "xi" 西    "dong" 东 "bei" 北    "nan" 南    "zhong" 中 "qi" 期        *)
(*   "n1".."n10" 一..十   "(" ")" half-width, "((" "))" full-width （ ）    *)
(*   " " space, "-", "&", and Latin letters for the rest of a name.        *)
(***************************************************************************)
EXTENDS Integers, Sequences, FiniteSets, TLC

\* ------------------------------------------------------------------ strings

\* Python's None, distinct from every string (no string holds this token).
None == <<"<None>">>

\* The sentinel string "REJECT" returned by parse_campus_name.
REJECT == <<"R", "E", "J", "E", "C", "T">>

\* `not x` for x a string or None.
IsFalsy(x) == x = None \/ x = <<>>

IsSpace(c) == c = " "

RECURSIVE lstrip(_)
lstrip(s) == IF s # <<>> /\ IsSpace(Head(s)) THEN lstrip(Tail(s)) ELSE s

RECURSIVE rstrip(_)
rstrip(s) ==
    IF s # <<>> /\ IsSpace(s[Len(s)]) THEN rstrip(SubSeq(s, 1, Len(s) - 1)) ELSE s

\* str.strip()
strip(s) == rstrip(lstrip(s))

\* str.startswith / str.endswith
startswith(s, pre) == Len(pre) <= Len(s) /\ SubSeq(s, 1, Len(pre)) = pre

endswith(s, suf) ==
    Len(suf) <= Len(s) /\ SubSeq(s, Len(s) - Len(suf) + 1, Len(s)) = suf

\* `sub in text` for strings
contains(text, sub) ==
    \E i \in 1..(Len(text) - Len(sub) + 1) : SubSeq(text, i, i + Len(sub) - 1) = sub

\* str.replace(c, "") for a one-character c
remove_char(s, c) == SelectSeq(s, LAMBDA x : x # c)

\* ------------------------------------------------------- campus_parser.py

suffixes_to_remove ==
    << <<"xi", "qu">>, <<"dong", "qu">>, <<"bei", "qu">>, <<"nan", "qu">>,
       <<"zhong", "qu">>,
       <<"n1", "qi">>, <<"n2", "qi">>, <<"n3", "qi">>, <<"n4", "qi">>,
       <<"n5", "qi">>, <<"n6", "qi">>, <<"n7", "qi">>, <<"n8", "qi">>,
       <<"n9", "qi">>, <<"n10", "qi">> >>

\* Mutant of strip_suffixes: the loop stops at the first suffix it removes.
RECURSIVE strip_one_suffix(_, _)
strip_one_suffix(s, k) ==
    IF k > Len(suffixes_to_remove) THEN s
    ELSE IF endswith(s, suffixes_to_remove[k])
         THEN SubSeq(s, 1, Len(s) - Len(suffixes_to_remove[k]))
         ELSE strip_one_suffix(s, k + 1)

\* The loop over suffixes_to_remove: every suffix of the list is tried once,
\* in list order, on the string as left by the earlier ones (there is no break).
RECURSIVE strip_suffixes(_, _)
strip_suffixes(s, k) ==
    IF k > Len(suffixes_to_remove) THEN s
    ELSE LET suffix == suffixes_to_remove[k]
         IN  IF endswith(s, suffix)
             THEN strip_suffixes(SubSeq(s, 1, Len(s) - Len(suffix)), k + 1)
             ELSE strip_suffixes(s, k + 1)

ZHU_XIAOQU == <<"zhu", "xiao", "qu">>
XIAOQU == <<"xiao", "qu">>

\* Mutant of sub_main_campus: nothing is substituted.
sub_main_campus_kept(s) == s

\* re.sub(r"(.+)主校区", r"\1校区", s): the greedy (.+) runs to the last
\* occurrence of 主校区 that has at least one character before it, and only
\* that occurrence loses its 主.
sub_main_campus(s) ==
    LET occ == {i \in 2..(Len(s) - 2) : SubSeq(s, i, i + 2) = ZHU_XIAOQU}
    IN  IF occ = {} THEN s
        ELSE LET i == CHOOSE m \in occ : \A o \in occ : o <= m
             IN  SubSeq(s, 1, i - 1) \o XIAOQU \o SubSeq(s, i + 3, Len(s))

post_process_name(name) ==
    IF IsFalsy(name) THEN None
    ELSE LET trimmed == strip(name)
             cleaned == remove_char(remove_char(trimmed, "-"), "&")
             cut == strip_suffixes(cleaned, 1)
             processed_name == strip(sub_main_campus(cut))
         IN  IF processed_name # <<>> THEN processed_name ELSE None

valid_endings ==
    << <<"xiao", "qu">>, <<"yuan2", "qu">>, <<"yuan4", "qu">>, <<"xiao", "yuan2">>,
       <<"xue", "xiao">>, <<"fen", "xiao">>, <<"yuan4">> >>

EXCL_FUSHU == <<"fu", "shu">>
EXCL_YIYUAN == <<"yi", "yuan4">>

\* Mutant of is_valid_campus_name: the exclusion markers are not looked for.
is_valid_campus_name_no_exclusion(name) ==
    IF name = None THEN TRUE
    ELSE IF name = <<>> THEN FALSE
    ELSE \E k \in 1..Len(valid_endings) : endswith(name, valid_endings[k])

is_valid_campus_name(name) ==
    IF name = None THEN TRUE
    ELSE IF name = <<>> THEN FALSE
    ELSE IF contains(name, EXCL_FUSHU) \/ contains(name, EXCL_YIYUAN) THEN FALSE
    ELSE \E k \in 1..Len(valid_endings) : endswith(name, valid_endings[k])

is_location_substring(text, poi) ==
    IF IsFalsy(text) THEN FALSE
    ELSE \/ (poi.province # <<>> /\ contains(poi.province, text))
         \/ (poi.city # <<>> /\ contains(poi.city, text))
         \/ (poi.district # <<>> /\ contains(poi.district, text))

extract_bracketed_content(text) ==
    LET t == strip(text)
    IN  IF t = <<>> THEN <<>>
        ELSE IF startswith(t, <<"(">>) /\ endswith(t, <<")">>)
             THEN strip(SubSeq(t, 2, Len(t) - 1))
             ELSE t

\* Mutant of pattern_char_matches: every character of the title is accepted.
pattern_char_matches_any(c, t) == TRUE

\* One element of the pattern built from school_name matches one character of
\* the title: itself, and a full-width parenthesis of the name also matches
\* its half-width counterpart.
pattern_char_matches(c, t) ==
    \/ c = t
    \/ (c = "((" /\ t = "(")
    \/ (c = "))" /\ t = ")")

\* pattern.match(poi_title): the length matched, or -1 for no match.
prefix_match_end(school_name, poi_title) ==
    IF /\ Len(school_name) <= Len(poi_title)
       /\ \A i \in 1..Len(school_name) :
              pattern_char_matches(school_name[i], poi_title[i])
    THEN Len(school_name)
    ELSE -1

\* The end of the group \([^)]+\) that starts at i, or 0 when none starts there.
group_end(s, i) ==
    IF s[i] # "(" THEN 0
    ELSE LET closes == {j \in (i + 1)..Len(s) : s[j] = ")"}
         IN  IF closes = {} THEN 0
             ELSE LET j == CHOOSE m \in closes : \A o \in closes : m <= o
                  IN  IF j >= i + 2 THEN j ELSE 0

\* [p for p in re.split(r"(\([^)]+\))", s) if p], scanning from position i
\* with the current plain piece starting at b.
RECURSIVE split_parts(_, _, _)
split_parts(s, i, b) ==
    IF i > Len(s)
    THEN IF b <= Len(s) THEN <<SubSeq(s, b, Len(s))>> ELSE <<>>
    ELSE LET j == group_end(s, i)
         IN  IF j # 0
             THEN (IF b < i THEN <<SubSeq(s, b, i - 1)>> ELSE <<>>)
                  \o <<SubSeq(s, i, j)>> \o split_parts(s, j + 1, j + 1)
             ELSE split_parts(s, i + 1, b)

\* Mutant of join_parts: the segments after the n-th are joined as well.
RECURSIVE join_parts_all(_, _)
join_parts_all(parts, n) ==
    IF parts = <<>> THEN <<>>
    ELSE extract_bracketed_content(Head(parts)) \o join_parts_all(Tail(parts), n)

RECURSIVE join_parts(_, _)
join_parts(parts, n) ==
    IF n = 0 THEN <<>>
    ELSE join_parts(parts, n - 1) \o extract_bracketed_content(parts[n])

is_anchor(part, poi) ==
    LET post_processed_content == post_process_name(extract_bracketed_content(part))
    IN  \/ is_valid_campus_name(post_processed_content)
        \/ is_location_substring(post_processed_content, poi)

\* Mutant of anchored_name: 校区 is never appended.
anchored_name_plain(parts, i, poi) == post_process_name(join_parts(parts, i))

\* The name built once the anchor is parts[i].
anchored_name(parts, i, poi) ==
    LET is_loc_substr ==
            is_location_substring(
                post_process_name(extract_bracketed_content(parts[i])), poi)
        final_name == join_parts(parts, i)
    IN  IF ~is_valid_campus_name(post_process_name(final_name)) /\ is_loc_substr
        THEN post_process_name(final_name \o XIAOQU)
        ELSE post_process_name(final_name)

\* Mutant of MAIN_CAMPUS_MARKERS: 校本部 is not a marker.
MAIN_CAMPUS_ONLY == { <<"zhu", "xiao", "qu">> }

MAIN_CAMPUS_MARKERS == { <<"zhu", "xiao", "qu">>, <<"xiao", "ben", "bu">> }

parse_campus_name(poi, school_name) ==
    LET poi_title == poi.title
        match_end == prefix_match_end(school_name, poi_title)
    IN  IF match_end = -1 THEN REJECT
        ELSE IF match_end = Len(poi_title) THEN None
        ELSE LET remaining_title ==
                     strip(SubSeq(poi_title, match_end + 1, Len(poi_title)))
             IN  IF remaining_title = <<>> \/ remaining_title \in MAIN_CAMPUS_MARKERS
                 THEN None
                 ELSE LET parts == split_parts(remaining_title, 1, 1)
                          anchors == {i \in 1..Len(parts) : is_anchor(parts[i], poi)}
                      IN  IF anchors = {} THEN REJECT
                          ELSE anchored_name(
                                   parts,
                                   CHOOSE m \in anchors : \A o \in anchors : o <= m,
                                   poi)


\* ---------------------------------------- main.py's own copy of the parser
\* main.py defines post_process_name, is_location_substring,
\* extract_bracketed_content and parse_campus_name with the same code as
\* campus_parser.py; its is_valid_campus_name starts with `if not name:
\* return True`, so it accepts the empty string as well as None.

\* Mutant of post_process_name_main: an empty result is returned as it is.
post_process_name_empty(name) ==
    IF IsFalsy(name) THEN <<>>
    ELSE strip(sub_main_campus(
             strip_suffixes(remove_char(remove_char(strip(name), "-"), "&"), 1)))

post_process_name_main(name) == post_process_name(name)

is_valid_campus_name_main(name) ==
    IF IsFalsy(name) THEN TRUE
    ELSE IF contains(name, EXCL_FUSHU) \/ contains(name, EXCL_YIYUAN) THEN FALSE
    ELSE \E k \in 1..Len(valid_endings) : endswith(name, valid_endings[k])

is_anchor_main(part, poi) ==
    LET post_processed_content ==
            post_process_name_main(extract_bracketed_content(part))
    IN  \/ is_valid_campus_name_main(post_processed_content)
        \/ is_location_substring(post_processed_content, poi)

anchored_name_main(parts, i, poi) ==
    LET is_loc_substr ==
            is_location_substring(
                post_process_name_main(extract_bracketed_content(parts[i])), poi)
        final_name == join_parts(parts, i)
    IN  IF ~is_valid_campus_name_main(post_process_name_main(final_name))
           /\ is_loc_substr
        THEN post_process_name_main(final_name \o XIAOQU)
        ELSE post_process_name_main(final_name)

parse_campus_name_main(poi, school_name) ==
    LET poi_title == poi.title
        match_end == prefix_match_end(school_name, poi_title)
    IN  IF match_end = -1 THEN REJECT
        ELSE IF match_end = Len(poi_title) THEN None
        ELSE LET remaining_title ==
                     strip(SubSeq(poi_title, match_end + 1, Len(poi_title)))
             IN  IF remaining_title = <<>> \/ remaining_title \in MAIN_CAMPUS_MARKERS
                 THEN None
                 ELSE LET parts == split_parts(remaining_title, 1, 1)
                          anchors == {i \in 1..Len(parts) : is_anchor_main(parts[i], poi)}
                      IN  IF anchors = {} THEN REJECT
                          ELSE anchored_name_main(
                                   parts,
                                   CHOOSE m \in anchors : \A o \in anchors : o <= m,
                                   poi)


\* ------------------------------------------------------------ the inputs

\* The roster: institution names, unique.  "A", "A(I)" with half-width
\* parentheses, and "A（I）" with full-width ones (the same length, and both
\* prefixes of a title that starts "A(I)").
SCHOOL_A == <<"A">>
SCHOOL_AI_HALF == <<"A", "(", "I", ")">>
SCHOOL_AI_FULL == <<"A", "((", "I", "))">>

Schools == {SCHOOL_A, SCHOOL_AI_HALF, SCHOOL_AI_FULL}

\* Places the search API can return, each id with one fixed title.
Place(id, title) ==
    [id |-> id, title |-> title, province |-> <<>>, city |-> <<>>, district |-> <<>>]

POIS ==
    << Place("p1", <<"A", "(", "I", ")", "W", "xiao", "qu">>),
       Place("p2", <<"A", "(", "I", ")", "-", "W", "xiao", "qu">>),
       Place("p3", <<"A">>),
       Place("p4", <<"A", "zhu", "xiao", "qu">>),
       Place("p5", <<"A", "xiao", "ben", "bu">>),
       Place("", <<"A", "xiao", "qu">>),
       Place("p9", <<>>),
       Place("p7", <<"A", "fu", "shu", "yi", "yuan4">>),
       Place("p8", <<"A", "(", "I", ")", "W", "-", "xiao", "qu">>) >>

\* How many places of POIS the search returns.
NumPois == 7

\* The most rejected places one run records.
MaxRejected == 2

Pois == 1..NumPois

\* parse_campus_name_func, the parser handed to process_poi_data: what
\* parse_campus_name returns for each place of the search and each school.
parse_campus_name_func ==
    [k \in 1..Len(POIS) |-> [school_name \in Schools |->
        parse_campus_name(POIS[k], school_name)]]

\* ------------------------------------------------------- poi_processor.py

VARIABLES
    final_universities_data_map,  \* school name -> [name, campuses, campus_map_temp]
    processed_pois_map,           \* poi id -> [school_name, prefix_ratio]
    rejected_pois,                \* the rejected places, in order
    last_call,                    \* the arguments of the latest process_poi_data call
    ret                           \* and what it returned

\* main.py, process_university_data
VARIABLES
    pc,                           \* where process_university_data stands
    index,                        \* roster rows taken so far by the for loop
    page_index,
    total_pages,
    page_data,                    \* places of the current page still to process
    response_data,                \* what the latest request_tencent_api call gave
    requested,                    \* the <<row, page>> pairs requested, in order
    quota_exceeded,
    universities_with_campuses,   \* the two reports, None until written
    universities_without_campuses,
    exit_status                   \* -1 until the process has ended

\* tencent_maps.py, request_tencent_api
VARIABLES
    attempt,                      \* the loop variable of range(MAX_RETRIES)
    http_calls,                   \* requests.get calls made by this call
    rate_limited,                 \* how many of them answered status 120
    outcome,                      \* what the latest requests.get gave
    api_result                    \* "running", or how the call ended

\* campus_parser.py, one parse_campus_name call
VARIABLES
    parse_school_name,
    parse_poi,
    parse_result                  \* Pending until the call has returned

\* campus_parser.py, post_process_name applied to a string and to its result
VARIABLES
    post_input,
    post_output,                  \* Pending until the first call has returned
    post_again                    \* Pending until the second call has returned

\* process_poi_data called by concurrent institution workers
VARIABLES
    critical_section,             \* "whole": a call is one critical section;
                                  \* "split": the read of processed_pois_map is
                                  \* outside the one that mutates; "none": idle
    workers                       \* per institution: where its call stands, the
                                  \* place, and the previous_global_match it read

\* main_global.py, query_processor.py, google_places.py, checkpoint.py
VARIABLES
    cache,                        \* CacheManager.cache: name -> result or None
    checkpoint,                   \* CheckpointManager.checkpoint, as last saved
    run_pc,                       \* where main() stands
    idx,                          \* roster rows taken so far by the for loop
    processed_names,              \* checkpoint.get_processed_names() at start-up
    processed_list,
    passed,                       \* the rows handed to query_university, this run
    runs,                         \* runs of main() started so far
    query_pc,                     \* where query_university stands
    university,                   \* its argument (the row's Name)
    place_id,
    query_result,                 \* what the latest call returned
    api_attempt,                  \* the attempt of the API method that is running
    api_log                       \* the API method calls and HTTP requests made

reconciler_vars ==
    <<final_universities_data_map, processed_pois_map, rejected_pois, last_call, ret>>

main_vars ==
    <<pc, index, page_index, total_pages, page_data, response_data, requested,
      quota_exceeded, universities_with_campuses, universities_without_campuses,
      exit_status>>

api_vars == <<attempt, http_calls, rate_limited, outcome, api_result>>

post_vars == <<post_input, post_output, post_again>>

parser_vars == <<parse_school_name, parse_poi, parse_result, post_vars>>

worker_vars == <<critical_section, workers>>

global_vars ==
    <<cache, checkpoint, run_pc, idx, processed_names, processed_list, passed,
      runs, query_pc, university, place_id, query_result, api_attempt, api_log>>

vars == <<reconciler_vars, main_vars, api_vars, parser_vars, worker_vars, global_vars>>

\* process_university_data has not been entered.
main_idle ==
    /\ pc = "idle" /\ index = 0 /\ page_index = 0 /\ total_pages = 0
    /\ page_data = <<>> /\ response_data = "no request" /\ requested = <<>>
    /\ quota_exceeded = FALSE
    /\ universities_with_campuses = None /\ universities_without_campuses = None
    /\ exit_status = -1

\* request_tencent_api has not been entered.
api_idle ==
    /\ attempt = 0 /\ http_calls = 0 /\ rate_limited = 0
    /\ outcome = "no request" /\ api_result = "idle"

\* No institution worker has been started.
worker_idle == critical_section = "none" /\ workers = <<>>

\* main() of main_global.py has not been entered.
global_idle ==
    /\ cache = <<>> /\ checkpoint = <<>> /\ run_pc = "idle" /\ idx = 0
    /\ processed_names = {} /\ processed_list = <<>> /\ passed = <<>> /\ runs = 0
    /\ query_pc = "idle" /\ university = <<>> /\ place_id = ""
    /\ query_result = <<>> /\ api_attempt = 0 /\ api_log = <<>>

\* parse_campus_name has not been entered.
parser_idle ==
    /\ parse_school_name = <<>> /\ parse_poi = Place("", <<>>) /\ parse_result = None
    /\ post_input = <<>> /\ post_output = None /\ post_again = None

\* merge_supplementary_data: the record a roster row starts with.
merge_supplementary_data(school_name) ==
    [name |-> school_name, campuses |-> <<>>, campus_map_temp |-> <<>>]

\* dict.get(key) is not None
dict_has(d, key) == key \in DOMAIN d

\* d[key] = value on a dict
dict_set(d, key, value) ==
    [x \in DOMAIN d \cup {key} |-> IF x = key THEN value ELSE d[x]]

\* len(school_name) / len(poi_title), kept as the exact fraction.
prefix_ratio(school_name, poi_title) == [num |-> Len(school_name), den |-> Len(poi_title)]

\* Mutant of ratio_le: a strict comparison, so that a tie displaces the owner.
ratio_lt(a, b) == a.num * b.den < b.num * a.den

\* a <= b on two such fractions (the floats of two fractions of small
\* integers compare as the fractions do).
ratio_le(a, b) == a.num * b.den <= b.num * a.den

\* [c for c in campuses if c.get("id") != poi_id]
without_poi(campuses, poi_id) == SelectSeq(campuses, LAMBDA c : c.id # poi_id)

\* Mutant of global_check_rejects: the recorded owner is never looked at.
global_check_skipped(pois_map, poi_id, current_prefix_ratio) == FALSE

\* 1. the global check: the place is already assigned and this school's ratio
\*    does not exceed the recorded one.
global_check_rejects(pois_map, poi_id, current_prefix_ratio) ==
    /\ dict_has(pois_map, poi_id)
    /\ ratio_le(current_prefix_ratio, pois_map[poi_id].prefix_ratio)

\* Mutant of local_check_rejects: a strict comparison, so that a place with a
\* title of the same length takes the slot.
local_check_strict(local_campus_map, campus_name_processed, current_poi_title_len) ==
    /\ dict_has(local_campus_map, campus_name_processed)
    /\ current_poi_title_len > local_campus_map[campus_name_processed].title_len

\* Mutant of local_check_rejects: a None name is never given a campus.
local_check_drops_none(local_campus_map, campus_name_processed, current_poi_title_len) ==
    \/ campus_name_processed = None
    \/ /\ dict_has(local_campus_map, campus_name_processed)
       /\ current_poi_title_len >= local_campus_map[campus_name_processed].title_len

\* Mutant of local_check_rejects: the school's slots are never looked at.
local_check_skipped(local_campus_map, campus_name_processed, current_poi_title_len) ==
    FALSE

\* 2. the local check: the school already holds a campus of this name and the
\*    current title is at least as long as the recorded one.
local_check_rejects(local_campus_map, campus_name_processed, current_poi_title_len) ==
    /\ dict_has(local_campus_map, campus_name_processed)
    /\ current_poi_title_len >= local_campus_map[campus_name_processed].title_len

campus_data(poi, campus_name_processed) ==
    [id |-> poi.id, name |-> campus_name_processed, province |-> poi.province,
     city |-> poi.city, district |-> poi.district]

\* Mutant of record_rejected: the rejected place is not recorded.
record_rejected_skipped(rejected, poi) == rejected

\* rejected_pois.append(poi)
record_rejected(rejected, poi) == Append(rejected, poi)

\* Mutant of after_transfer: the previous school keeps the campus.
after_transfer_kept(map, pois_map, poi_id) == map

\* The map after the transfer from the previous school, if there is one.
after_transfer(map, pois_map, poi_id) ==
    IF dict_has(pois_map, poi_id) /\ dict_has(map, pois_map[poi_id].school_name)
    THEN LET prev_school_name == pois_map[poi_id].school_name
         IN  [map EXCEPT ![prev_school_name].campuses = without_poi(@, poi_id)]
    ELSE map

\* Mutant of after_replacement: the campus of the same name stays in the list.
after_replacement_kept(map, school_name, local_campus_map, campus_name_processed) == map

\* The map after the replacement of the school's campus of the same name.
after_replacement(map, school_name, local_campus_map, campus_name_processed) ==
    IF dict_has(local_campus_map, campus_name_processed)
    THEN LET old_poi_id == local_campus_map[campus_name_processed].poi_id
         IN  [map EXCEPT ![school_name].campuses = without_poi(@, old_poi_id)]
    ELSE map

\* Mutant of after_append: the slot is updated and the campus is not appended.
after_append_slot_only(map, school_name, poi, campus_name_processed) ==
    [map EXCEPT
        ![school_name].campus_map_temp =
            dict_set(@, campus_name_processed,
                     [poi_id |-> poi.id, title_len |-> Len(poi.title),
                      poi_title |-> poi.title])]

\* The map after the append and the update of the school's slot.
after_append(map, school_name, poi, campus_name_processed) ==
    [map EXCEPT
        ![school_name].campuses = Append(@, campus_data(poi, campus_name_processed)),
        ![school_name].campus_map_temp =
            dict_set(@, campus_name_processed,
                     [poi_id |-> poi.id, title_len |-> Len(poi.title),
                      poi_title |-> poi.title])]

\* Mutant of is_malformed: only a missing id is looked at.
is_malformed_id_only(poi_id, poi_title) == poi_id = ""

\* `not poi_id or not poi_title`
is_malformed(poi_id, poi_title) == poi_id = "" \/ poi_title = <<>>

process_poi_data(k, school_name) ==
    LET poi == POIS[k]
        poi_id == poi.id
        poi_title == poi.title
    IN  /\ last_call' = [poi |-> k, school_name |-> school_name]
        /\ UNCHANGED <<main_vars, api_vars, worker_vars, global_vars, parser_vars>>
        /\ IF is_malformed(poi_id, poi_title)
           THEN /\ ret' = FALSE
                /\ UNCHANGED <<final_universities_data_map, processed_pois_map,
                               rejected_pois>>
           ELSE LET campus_name_processed == parse_campus_name_func[k][school_name]
                IN  IF campus_name_processed = REJECT
                    THEN /\ Len(rejected_pois) < MaxRejected
                         /\ rejected_pois' = record_rejected(rejected_pois, poi)
                         /\ ret' = FALSE
                         /\ UNCHANGED <<final_universities_data_map, processed_pois_map>>
                    ELSE LET current_prefix_ratio == prefix_ratio(school_name, poi_title)
                             local_campus_map ==
                                 final_universities_data_map[school_name].campus_map_temp
                         IN  IF \/ global_check_rejects(processed_pois_map, poi_id,
                                                        current_prefix_ratio)
                                \/ local_check_rejects(local_campus_map,
                                                       campus_name_processed,
                                                       Len(poi_title))
                             THEN /\ ret' = FALSE
                                  /\ UNCHANGED <<final_universities_data_map,
                                                 processed_pois_map, rejected_pois>>
                             ELSE /\ final_universities_data_map' =
                                        after_append(
                                            after_replacement(
                                                after_transfer(
                                                    final_universities_data_map,
                                                    processed_pois_map, poi_id),
                                                school_name, local_campus_map,
                                                campus_name_processed),
                                            school_name, poi, campus_name_processed)
                                  /\ processed_pois_map' =
                                        dict_set(processed_pois_map, poi_id,
                                                 [school_name |-> school_name,
                                                  prefix_ratio |-> current_prefix_ratio])
                                  /\ ret' = TRUE
                                  /\ UNCHANGED rejected_pois

NoCall == [poi |-> 0, school_name |-> <<>>]

Init ==
    /\ final_universities_data_map = [s \in Schools |-> merge_supplementary_data(s)]
    /\ processed_pois_map = <<>>
    /\ rejected_pois = <<>>
    /\ last_call = NoCall
    /\ ret = FALSE
    /\ main_idle /\ api_idle /\ parser_idle /\ worker_idle /\ global_idle

Next == \E k \in Pois, school_name \in Schools : process_poi_data(k, school_name)

Spec == Init /\ [][Next]_vars

\* --------------------------- process_poi_data called by concurrent workers
\* One worker per institution, each calling process_poi_data for its own
\* school on the shared maps.  Under "whole" a call is one step.  Under
\* "split" the read of processed_pois_map with the global check is one step,
\* and the local check with the mutations, which still use the
\* previous_global_match read before, is a later one.

\* The places the workers are handed.
NumWorkerPois == 2

WorkerPois == 1..NumWorkerPois

worker_at_rest == [at |-> "idle", poi |-> 0, previous_global_match |-> <<>>]

\* processed_pois_map.get(poi_id), kept as a map of at most that one entry.
previous_global_match_of(pois_map, poi_id) ==
    IF dict_has(pois_map, poi_id)
    THEN dict_set(<<>>, poi_id, pois_map[poi_id])
    ELSE <<>>

\* A whole call in one critical section.
worker_call(w, k) ==
    /\ critical_section = "whole"
    /\ process_poi_data(k, w)

\* Lines 15-44 as the first critical section: the parse, the read of
\* processed_pois_map and the global check.
worker_read(w, k) ==
    LET poi == POIS[k]
        poi_id == poi.id
        poi_title == poi.title
        campus_name_processed == parse_campus_name_func[k][w]
    IN  /\ critical_section = "split"
        /\ workers[w].at = "idle"
        /\ last_call' = [poi |-> k, school_name |-> w]
        /\ UNCHANGED <<final_universities_data_map, processed_pois_map,
                       critical_section, main_vars, api_vars, parser_vars, global_vars>>
        /\ IF is_malformed(poi_id, poi_title)
           THEN /\ ret' = FALSE
                /\ UNCHANGED <<workers, rejected_pois>>
           ELSE IF campus_name_processed = REJECT
           THEN /\ Len(rejected_pois) < MaxRejected
                /\ rejected_pois' = record_rejected(rejected_pois, poi)
                /\ ret' = FALSE
                /\ UNCHANGED workers
           ELSE IF global_check_rejects(processed_pois_map, poi_id,
                                        prefix_ratio(w, poi_title))
           THEN /\ ret' = FALSE
                /\ UNCHANGED <<workers, rejected_pois>>
           ELSE /\ workers' =
                      [workers EXCEPT ![w] =
                          [at |-> "checked", poi |-> k,
                           previous_global_match |->
                               previous_global_match_of(processed_pois_map, poi_id)]]
                /\ UNCHANGED <<ret, rejected_pois>>

\* Lines 46-118 as the second critical section: the local check on the
\* current slots, then the transfer from the school read before, the
\* replacement, the append and the two table updates.
worker_commit(w) ==
    /\ critical_section = "split"
    /\ workers[w].at = "checked"
    /\ LET k == workers[w].poi
           poi == POIS[k]
           poi_id == poi.id
           poi_title == poi.title
           campus_name_processed == parse_campus_name_func[k][w]
           previous_global_match == workers[w].previous_global_match
           local_campus_map == final_universities_data_map[w].campus_map_temp
       IN  /\ last_call' = [poi |-> k, school_name |-> w]
           /\ IF local_check_rejects(local_campus_map, campus_name_processed,
                                     Len(poi_title))
              THEN /\ ret' = FALSE
                   /\ UNCHANGED <<final_universities_data_map, processed_pois_map>>
              ELSE /\ final_universities_data_map' =
                         after_append(
                             after_replacement(
                                 after_transfer(final_universities_data_map,
                                                previous_global_match, poi_id),
                                 w, local_campus_map, campus_name_processed),
                             w, poi, campus_name_processed)
                   /\ processed_pois_map' =
                         dict_set(processed_pois_map, poi_id,
                                  [school_name |-> w,
                                   prefix_ratio |-> prefix_ratio(w, poi_title)])
                   /\ ret' = TRUE
    /\ workers' = [workers EXCEPT ![w] = worker_at_rest]
    /\ UNCHANGED <<rejected_pois, critical_section, main_vars, api_vars,
                   parser_vars, global_vars>>

\* The workers are started on the maps as process_university_data sets them
\* up, under one of the two disciplines.
InitWorkers ==
    /\ critical_section \in {"whole", "split"}
    /\ workers = [w \in Schools |-> worker_at_rest]
    /\ final_universities_data_map = [s \in Schools |-> merge_supplementary_data(s)]
    /\ processed_pois_map = <<>>
    /\ rejected_pois = <<>>
    /\ last_call = NoCall
    /\ ret = FALSE
    /\ main_idle /\ api_idle /\ parser_idle /\ global_idle

NextWorkers ==
    \/ \E w \in Schools, k \in WorkerPois : worker_call(w, k)
    \/ \E w \in Schools, k \in WorkerPois : worker_read(w, k)
    \/ \E w \in Schools : worker_commit(w)

SpecWorkers == InitWorkers /\ [][NextWorkers]_vars

\* ------------------------------------------- parse_campus_name, one call

\* parse_campus_name has not returned yet.
Pending == <<"<Pending>">>

\* The characters institution names and the start of a title are made of.
NameChars == {"A", "(", "((", ")", "))"}

\* The longest institution name, and the longest start of a title.
MaxNameLen == 2

StringsUpTo(chars, n) == UNION {[1..m -> chars] : m \in 0..n}

SchoolNames == StringsUpTo(NameChars, MaxNameLen) \ {<<>>}

\* What follows the start of a title.
TitleEnds ==
    { <<>>,
      <<" ">>,
      <<"zhu", "xiao", "qu">>,
      <<" ", "zhu", "xiao", "qu", " ">>,
      <<" ", "xiao", "ben", "bu">>,
      <<"W", "xiao", "qu">>,
      <<"zhu", "xiao", "qu", "W">>,
      <<"W">> }

Titles == {h \o e : h \in StringsUpTo(NameChars, MaxNameLen), e \in TitleEnds}

\* What a segment of the part of a title after the name can hold: a word that
\* is no qualifier (W), a word of the place's district (H), a campus (W校区),
\* the district itself (H园区), the exclusion markers 附属 and 医院, and
\* contents that post_process_name reduces to nothing (-, 东区, a blank).
SegmentContents ==
    { <<"W">>, <<"H">>, <<"W", "xiao", "qu">>, <<"H", "yuan2", "qu">>,
      <<"fu", "shu">>, <<"yi", "yuan4">>, <<"-">>, <<"dong", "qu">>, <<" ">> }

\* A piece of a title: a content, plain or between half-width parentheses.
Segments == SegmentContents \cup {<<"(">> \o c \o <<")">> : c \in SegmentContents}

\* The most pieces after the name.
MaxSegments == 2

RECURSIVE Remainders(_)
Remainders(n) ==
    IF n = 0 THEN {<<>>}
    ELSE LET shorter == Remainders(n - 1)
         IN  shorter \cup {r \o g : r \in shorter, g \in Segments}

\* The administrative name a place carries, if any, and the field it is in.
Locations == {<<>>, <<"H", "yuan2", "qu">>}

LocationFields == {"province", "city", "district"}

\* Places of SCHOOL_A whose title goes on after the name, with a location.
SegmentedPlaces ==
    {[Place("p", SCHOOL_A \o r) EXCEPT ![f] = l] :
        r \in Remainders(MaxSegments), f \in LocationFields, l \in Locations}

call_parse_campus_name ==
    /\ parse_result = Pending
    /\ parse_result' = parse_campus_name(parse_poi, parse_school_name)
    /\ UNCHANGED <<parse_school_name, parse_poi, post_vars, reconciler_vars,
                   main_vars, api_vars, worker_vars, global_vars>>

\* parse_campus_name is about to be called with a place and a school name.
InitParser ==
    /\ \/ /\ parse_school_name \in SchoolNames
          /\ parse_poi \in {Place("p", t) : t \in Titles}
       \/ /\ parse_school_name = SCHOOL_A
          /\ parse_poi \in SegmentedPlaces
    /\ parse_result = Pending
    /\ post_input = <<>> /\ post_output = None /\ post_again = None
    /\ final_universities_data_map = <<>> /\ processed_pois_map = <<>>
    /\ rejected_pois = <<>> /\ last_call = NoCall /\ ret = FALSE
    /\ main_idle /\ api_idle /\ worker_idle /\ global_idle

NextParser == call_parse_campus_name

SpecParser == InitParser /\ [][NextParser]_vars

\* ------------------------------------------ post_process_name, two calls

\* The characters the strings handed to post_process_name are made of.
PostChars == {" ", "-", "&", "W", "xi", "dong", "qu", "n1", "qi", "zhu", "xiao"}

\* The longest such string.
MaxPostLen == 4

PostInputs == StringsUpTo(PostChars, MaxPostLen)

call_post_process_name ==
    /\ post_output = Pending
    /\ post_output' = post_process_name(post_input)
    /\ UNCHANGED <<post_input, post_again, parse_school_name, parse_poi, parse_result,
                   reconciler_vars, main_vars, api_vars, worker_vars, global_vars>>

\* post_process_name is called on what it returned.
call_post_process_name_again ==
    /\ post_output # Pending
    /\ post_again = Pending
    /\ post_again' = post_process_name(post_output)
    /\ UNCHANGED <<post_input, post_output, parse_school_name, parse_poi, parse_result,
                   reconciler_vars, main_vars, api_vars, worker_vars, global_vars>>

\* post_process_name is about to be called with a string.
InitPost ==
    /\ post_input \in PostInputs
    /\ post_output = Pending /\ post_again = Pending
    /\ parse_school_name = <<>> /\ parse_poi = Place("", <<>>) /\ parse_result = None
    /\ final_universities_data_map = <<>> /\ processed_pois_map = <<>>
    /\ rejected_pois = <<>> /\ last_call = NoCall /\ ret = FALSE
    /\ main_idle /\ api_idle /\ worker_idle /\ global_idle

NextPost == call_post_process_name \/ call_post_process_name_again

SpecPost == InitPost /\ [][NextPost]_vars

\* --------------------------------------------------------- tencent_maps.py

MAX_RETRIES == 10

\* What one requests.get can give: a JSON body with a status, or an exception
\* (raise_for_status and response.json raise inside the same try).
STATUS_OK == "status 0"
STATUS_RATE_LIMITED == "status 120"
STATUS_QUOTA == "status 121"
STATUS_OTHER == "status other"
TransientFailures == {"Timeout", "HTTPError", "RequestException"}

Outcomes ==
    {STATUS_OK, STATUS_RATE_LIMITED, STATUS_QUOTA, STATUS_OTHER} \cup TransientFailures

\* Mutant of loop_continues: only a rate-limit answer leads to another attempt.
loop_continues_rate_limit_only(o) == o = STATUS_RATE_LIMITED

\* The for loop goes to its next iteration: `continue` after status 120, or the
\* fall through the except clauses.
loop_continues(o) == o = STATUS_RATE_LIMITED \/ o \in TransientFailures

\* Mutant of in_range: the loop makes one more iteration.
in_range_one_more(a) == a <= MAX_RETRIES

\* attempt in range(MAX_RETRIES)
in_range(a) == a < MAX_RETRIES

\* How the call ends on an answer that ends it.
api_return(o) ==
    IF o = STATUS_OK THEN "response_data"
    ELSE IF o = STATUS_QUOTA THEN "QuotaExceededError"
    ELSE "None"

\* One iteration of the for loop: one requests.get and what follows it.
request_tencent_api_attempt(o) ==
    /\ api_result = "running"
    /\ in_range(attempt)
    /\ http_calls' = http_calls + 1
    /\ outcome' = o
    /\ rate_limited' = IF o = STATUS_RATE_LIMITED THEN rate_limited + 1 ELSE rate_limited
    /\ IF loop_continues(o)
       THEN attempt' = attempt + 1 /\ UNCHANGED api_result
       ELSE api_result' = api_return(o) /\ UNCHANGED attempt
    /\ UNCHANGED <<reconciler_vars, main_vars, parser_vars, worker_vars, global_vars>>

\* The loop has run out: `return None` after it.
request_tencent_api_give_up ==
    /\ api_result = "running"
    /\ ~in_range(attempt)
    /\ api_result' = "None"
    /\ UNCHANGED <<attempt, http_calls, rate_limited, outcome>>
    /\ UNCHANGED <<reconciler_vars, main_vars, parser_vars, worker_vars, global_vars>>

\* request_tencent_api has been called.
InitApi ==
    /\ attempt = 0 /\ http_calls = 0 /\ rate_limited = 0
    /\ outcome = "no request" /\ api_result = "running"
    /\ final_universities_data_map = <<>> /\ processed_pois_map = <<>>
    /\ rejected_pois = <<>> /\ last_call = NoCall /\ ret = FALSE
    /\ main_idle /\ parser_idle /\ worker_idle /\ global_idle

NextApi ==
    \/ \E o \in Outcomes : request_tencent_api_attempt(o)
    \/ request_tencent_api_give_up

\* The call runs on: nothing outside it keeps the loop from its next step.
SpecApi == InitApi /\ [][NextApi]_vars /\ WF_vars(NextApi)

\* ------------------------------------------------------------------ main.py

PAGE_SIZE == 20

\* The roster read from the Excel file, one name per row; the name of a row
\* can be empty after clean_name.
universities_list == <<SCHOOL_A, <<>>, SCHOOL_AI_HALF>>

\* The pages of places the search can answer with (indices into POIS), and
\* the counts it can report.
PAGES ==
    << <<1>>, <<2, 1>>, <<6, 3>>, <<>>, <<7, 4>>, <<1, 2>> >>

NumPages == 4

Counts == {0, 20, 21, 41}

\* Mutant of pages_for: the division rounds down.
pages_for_floor(count) == count \div PAGE_SIZE

\* math.ceil(count / PAGE_SIZE)
pages_for(count) == (count + PAGE_SIZE - 1) \div PAGE_SIZE

\* school_output as it is stored in final_universities_data_map.
school_output(school_name) == [name |-> school_name, campuses |-> <<>>]

\* {c["name"] for c in current_school_data["campuses"]}
existing_campus_names(campuses) == {campuses[i].name : i \in DOMAIN campuses}

\* The previous owner's campuses without the place (lines 432-442).
main_detach(map, pois_map, poi_id) ==
    IF dict_has(pois_map, poi_id) /\ dict_has(map, pois_map[poi_id].school_name)
    THEN [map EXCEPT ![pois_map[poi_id].school_name].campuses = without_poi(@, poi_id)]
    ELSE map

\* current_school_data["campuses"].append(campus_data)
main_append(map, school_name, poi, campus_name_processed) ==
    [map EXCEPT ![school_name].campuses = Append(@, campus_data(poi, campus_name_processed))]

\* The for loop takes the next roster row.
next_school ==
    /\ pc = "loop"
    /\ index < Len(universities_list)
    /\ index' = index + 1
    /\ LET school_name == universities_list[index + 1]
       IN  IF school_name = <<>>
           THEN UNCHANGED <<final_universities_data_map, page_index, total_pages, pc>>
           ELSE /\ final_universities_data_map' =
                      dict_set(final_universities_data_map, school_name,
                               school_output(school_name))
                /\ page_index' = 1
                /\ total_pages' = 1
                /\ pc' = "request"
    /\ UNCHANGED <<processed_pois_map, rejected_pois, last_call, ret, page_data,
                   response_data, requested, quota_exceeded,
                   universities_with_campuses, universities_without_campuses,
                   exit_status, api_vars, worker_vars, global_vars, parser_vars>>

\* The for loop has no row left.
loop_done ==
    /\ pc = "loop"
    /\ index = Len(universities_list)
    /\ pc' = "report"
    /\ UNCHANGED <<reconciler_vars, index, page_index, total_pages, page_data,
                   response_data, requested, quota_exceeded,
                   universities_with_campuses, universities_without_campuses,
                   exit_status, api_vars, worker_vars, global_vars, parser_vars>>

\* One request of the while loop: the row and the page asked for, what
\* request_tencent_api gave back, and the response_data.get("count", 0) that
\* the loop reads, which it does on page 1 only (0 elsewhere).
request_entry(result, count) ==
    [row |-> index, page |-> page_index, result |-> result,
     count |-> IF page_index = 1 THEN count ELSE 0]

\* request_tencent_api returned a response: its count and its data.
request_page_ok(count, page) ==
    /\ pc = "request"
    /\ requested' = Append(requested, request_entry("response_data", count))
    /\ response_data' = "response_data"
    /\ total_pages' = IF page_index = 1 THEN pages_for(count) ELSE total_pages
    /\ page_data' = PAGES[page]
    /\ pc' = "pois"
    /\ UNCHANGED <<reconciler_vars, index, page_index, quota_exceeded,
                   universities_with_campuses, universities_without_campuses,
                   exit_status, api_vars, worker_vars, global_vars, parser_vars>>

\* Mutant of after_failure: the loop asks for the page again.
after_failure_retry == "request"

\* request_tencent_api returned None: `break` out of the while loop.
after_failure == "loop"

request_page_failed ==
    /\ pc = "request"
    /\ requested' = Append(requested, request_entry("None", 0))
    /\ response_data' = "None"
    /\ pc' = after_failure
    /\ UNCHANGED <<reconciler_vars, index, page_index, total_pages, page_data,
                   quota_exceeded, universities_with_campuses,
                   universities_without_campuses, exit_status, api_vars, worker_vars, global_vars, parser_vars>>

\* Mutant of after_quota: the for loop goes on with the next row.
after_quota_next_row == "loop"

\* request_tencent_api raised QuotaExceededError: the except clause after the
\* for loop, then the report.
after_quota == "report"

request_page_quota ==
    /\ pc = "request"
    /\ requested' = Append(requested, request_entry("QuotaExceededError", 0))
    /\ response_data' = "QuotaExceededError"
    /\ quota_exceeded' = TRUE
    /\ pc' = after_quota
    /\ UNCHANGED <<reconciler_vars, index, page_index, total_pages, page_data,
                   universities_with_campuses, universities_without_campuses,
                   exit_status, api_vars, worker_vars, global_vars, parser_vars>>

\* One iteration of `for poi in response_data.get("data", [])`.
process_poi ==
    /\ pc = "pois"
    /\ page_data # <<>>
    /\ page_data' = Tail(page_data)
    /\ LET k == Head(page_data)
           poi == POIS[k]
           poi_id == poi.id
           poi_title == poi.title
           school_name == universities_list[index]
       IN  IF is_malformed(poi_id, poi_title)
           THEN UNCHANGED <<final_universities_data_map, processed_pois_map,
                            rejected_pois>>
           ELSE LET campus_name_processed == parse_campus_name_func[k][school_name]
                IN  IF campus_name_processed = REJECT
                    THEN /\ rejected_pois' = Append(rejected_pois, poi)
                         /\ UNCHANGED <<final_universities_data_map,
                                        processed_pois_map>>
                    ELSE LET current_prefix_ratio ==
                                 prefix_ratio(school_name, poi_title)
                         IN  IF dict_has(processed_pois_map, poi_id)
                                /\ ratio_le(current_prefix_ratio,
                                            processed_pois_map[poi_id].prefix_ratio)
                             THEN UNCHANGED <<final_universities_data_map,
                                              processed_pois_map, rejected_pois>>
                             ELSE LET names ==
                                          existing_campus_names(
                                              final_universities_data_map[school_name]
                                                  .campuses)
                                      detached ==
                                          main_detach(final_universities_data_map,
                                                      processed_pois_map, poi_id)
                                  IN  IF campus_name_processed \in names
                                      THEN /\ final_universities_data_map' = detached
                                           /\ UNCHANGED <<processed_pois_map,
                                                          rejected_pois>>
                                      ELSE /\ final_universities_data_map' =
                                                 main_append(detached, school_name, poi,
                                                             campus_name_processed)
                                           /\ processed_pois_map' =
                                                 dict_set(processed_pois_map, poi_id,
                                                     [school_name |-> school_name,
                                                      prefix_ratio |->
                                                          current_prefix_ratio])
                                           /\ UNCHANGED rejected_pois
    /\ UNCHANGED <<last_call, ret, pc, index, page_index, total_pages, response_data,
                   requested, quota_exceeded, universities_with_campuses,
                   universities_without_campuses, exit_status, api_vars, worker_vars, global_vars, parser_vars>>

\* The page is done: page_index += 1 and the while condition.
end_page ==
    /\ pc = "pois"
    /\ page_data = <<>>
    /\ page_index' = page_index + 1
    /\ pc' = IF page_index + 1 <= total_pages THEN "request" ELSE "loop"
    /\ UNCHANGED <<reconciler_vars, index, total_pages, page_data, response_data,
                   requested, quota_exceeded, universities_with_campuses,
                   universities_without_campuses, exit_status, api_vars, worker_vars, global_vars, parser_vars>>

\* list(final_universities_data_map.values()): a dict keeps insertion order,
\* which is the order of the roster.
final_universities_data(map) ==
    LET listed == SelectSeq(universities_list, LAMBDA n : dict_has(map, n))
    IN  [i \in DOMAIN listed |-> map[listed[i]]]

\* Mutant of has_campuses: every school counts as one with campuses.
has_campuses_always(school) == TRUE

\* `if school.get("campuses")`
has_campuses(school) == school.campuses # <<>>

\* 5. the reports are written.
write_reports ==
    /\ pc = "report"
    /\ universities_with_campuses' =
           SelectSeq(final_universities_data(final_universities_data_map),
                     has_campuses)
    /\ universities_without_campuses' =
           SelectSeq(final_universities_data(final_universities_data_map),
                     LAMBDA school : ~has_campuses(school))
    /\ pc' = "exit"
    /\ UNCHANGED <<reconciler_vars, index, page_index, total_pages, page_data,
                   response_data, requested, quota_exceeded, exit_status,
                   api_vars, worker_vars, global_vars, parser_vars>>

\* Mutant of exit_code: the process always ends with status 0.
exit_code_zero(quota) == 0

\* sys.exit(1) when the quota was exhausted, the normal end otherwise.
exit_code(quota) == IF quota THEN 1 ELSE 0

process_exit ==
    /\ pc = "exit"
    /\ exit_status' = exit_code(quota_exceeded)
    /\ pc' = "done"
    /\ UNCHANGED <<reconciler_vars, index, page_index, total_pages, page_data,
                   response_data, requested, quota_exceeded,
                   universities_with_campuses, universities_without_campuses,
                   api_vars, worker_vars, global_vars, parser_vars>>

\* process_university_data is about to enter its main loop.
InitMain ==
    /\ pc = "loop" /\ index = 0 /\ page_index = 0 /\ total_pages = 0
    /\ page_data = <<>> /\ response_data = "no request" /\ requested = <<>>
    /\ quota_exceeded = FALSE
    /\ universities_with_campuses = None /\ universities_without_campuses = None
    /\ exit_status = -1
    /\ final_universities_data_map = <<>> /\ processed_pois_map = <<>>
    /\ rejected_pois = <<>> /\ last_call = NoCall /\ ret = FALSE
    /\ api_idle /\ parser_idle /\ worker_idle /\ global_idle

NextMain ==
    \/ next_school
    \/ loop_done
    \/ \E count \in Counts, page \in 1..NumPages : request_page_ok(count, page)
    \/ request_page_failed
    \/ request_page_quota
    \/ process_poi
    \/ end_page
    \/ write_reports
    \/ process_exit

SpecMain == InitMain /\ [][NextMain]_vars

\* ------------------------------- query_processor.py and google_places.py

query_vars ==
    <<cache, query_pc, university, place_id, query_result, api_attempt, api_log>>

run_vars ==
    <<checkpoint, run_pc, idx, processed_names, processed_list, passed, runs>>

\* GooglePlacesAPI(max_retries = 3)
max_retries == 3

\* The query_university calls one behaviour makes.
MaxQueries == 2

\* The Name fields of the rows: empty, blank, and names with and without
\* blanks around them.
NAME_X == <<"X">>
NAME_Y == <<"Y">>

Names == {<<>>, <<" ">>, NAME_X, <<"X", " ">>, NAME_Y}

\* The Country fields.
Countries == {<<>>, <<"C">>}

\* The place ids the Autocomplete service answers with.
PlaceIds == {"g1", "g2"}

\* What one HTTP request of an API method can end in.
HttpOutcomes == {"response", "Timeout", "RequestException"}

\* Mutant of cache_has: a name cached with None counts as absent.
cache_has_value(c, key) == dict_has(c, key) /\ c[key] # None

\* CacheManager.has: `key in self.cache`
cache_has(c, key) == dict_has(c, key)

\* CacheManager.get: self.cache.get(key)
cache_get(c, key) == IF dict_has(c, key) THEN c[key] ELSE None

\* CacheManager.set
cache_set(c, key, value) == dict_set(c, key, value)

\* university.get("Name", "").strip(), which is also the cache key.
name_of(u) == strip(u.Name)

\* f"{name}, {country}" when a country is given, the name otherwise.
query_string(u) ==
    IF u.Country # <<>> THEN name_of(u) \o <<",", " ">> \o u.Country ELSE name_of(u)

\* The dictionary query_university builds from the details.
place_result(name, id) == <<"place_result", id>>

log_entry(kind, u) == [kind |-> kind, name |-> name_of(u), query |-> query_string(u)]

\* query_university is entered: the empty name and the cached name return
\* at once, any other name goes on to api.autocomplete.
enter_query_university(u) ==
    /\ query_pc = "idle"
    /\ university' = u
    /\ IF name_of(u) = <<>>
       THEN /\ query_result' = None
            /\ api_log' = Append(api_log, log_entry("query_university", u))
            /\ UNCHANGED <<query_pc, cache, api_attempt>>
       ELSE IF cache_has(cache, name_of(u))
       THEN /\ query_result' = cache_get(cache, name_of(u))
            /\ api_log' = Append(api_log, log_entry("query_university", u))
            /\ UNCHANGED <<query_pc, cache, api_attempt>>
       ELSE /\ query_pc' = "autocomplete"
            /\ api_attempt' = 0
            /\ query_result' = Pending
            /\ api_log' = api_log \o <<log_entry("query_university", u),
                                       log_entry("autocomplete", u)>>
            /\ UNCHANGED cache
    /\ UNCHANGED place_id

\* query_university returns None after a failed step: cache.set(key, None).
return_none ==
    /\ cache' = cache_set(cache, name_of(university), None)
    /\ query_result' = None
    /\ query_pc' = "idle"
    /\ api_attempt' = 0

\* One session.post of GooglePlacesAPI.autocomplete.  A response with a
\* first suggestion that has a placeId returns it, any other response
\* returns None; a timeout or a request exception goes to the next attempt,
\* and after the last attempt the method returns None.
autocomplete_post(http_outcome, suggested) ==
    /\ query_pc = "autocomplete"
    /\ api_log' = api_log \o <<log_entry("post", university)>> \o
                      (IF http_outcome = "response" /\ suggested # ""
                       THEN <<log_entry("place_details", university)>>
                       ELSE <<>>)
    /\ IF http_outcome = "response"
       THEN IF suggested # ""
            THEN /\ place_id' = suggested
                 /\ query_pc' = "place_details"
                 /\ api_attempt' = 0
                 /\ UNCHANGED <<cache, query_result>>
            ELSE return_none /\ UNCHANGED place_id
       ELSE IF api_attempt + 1 < max_retries
            THEN /\ api_attempt' = api_attempt + 1
                 /\ UNCHANGED <<cache, query_result, query_pc, place_id>>
            ELSE return_none /\ UNCHANGED place_id
    /\ UNCHANGED university

\* One session.get of GooglePlacesAPI.place_details.  A response returns the
\* details, from which query_university builds and caches its result.
place_details_get(http_outcome) ==
    /\ query_pc = "place_details"
    /\ api_log' = Append(api_log, log_entry("get", university))
    /\ IF http_outcome = "response"
       THEN /\ cache' = cache_set(cache, name_of(university),
                                  place_result(name_of(university), place_id))
            /\ query_result' = place_result(name_of(university), place_id)
            /\ query_pc' = "idle"
            /\ api_attempt' = 0
       ELSE IF api_attempt + 1 < max_retries
            THEN /\ api_attempt' = api_attempt + 1
                 /\ UNCHANGED <<cache, query_result, query_pc>>
            ELSE return_none
    /\ UNCHANGED <<university, place_id>>

\* The query_university calls made so far.
calls_made == Len(SelectSeq(api_log, LAMBDA e : e.kind = "query_university"))

call_query_university(u) ==
    /\ calls_made < MaxQueries
    /\ enter_query_university(u)
    /\ UNCHANGED <<run_vars, reconciler_vars, main_vars, api_vars, parser_vars,
                   worker_vars>>

step_autocomplete(http_outcome, suggested) ==
    /\ autocomplete_post(http_outcome, suggested)
    /\ UNCHANGED <<run_vars, reconciler_vars, main_vars, api_vars, parser_vars,
                   worker_vars>>

step_place_details(http_outcome) ==
    /\ place_details_get(http_outcome)
    /\ UNCHANGED <<run_vars, reconciler_vars, main_vars, api_vars, parser_vars,
                   worker_vars>>

reconciler_idle ==
    /\ final_universities_data_map = <<>> /\ processed_pois_map = <<>>
    /\ rejected_pois = <<>> /\ last_call = NoCall /\ ret = FALSE

run_idle ==
    /\ checkpoint = <<>> /\ run_pc = "idle" /\ idx = 0
    /\ processed_names = {} /\ processed_list = <<>> /\ passed = <<>> /\ runs = 0

\* An empty cache, before the first query_university call.
InitQuery ==
    /\ cache = <<>> /\ query_pc = "idle"
    /\ university = [Name |-> <<>>, Country |-> <<>>]
    /\ place_id = "" /\ query_result = Pending /\ api_attempt = 0 /\ api_log = <<>>
    /\ run_idle /\ reconciler_idle /\ main_idle /\ api_idle /\ parser_idle
    /\ worker_idle

NextQuery ==
    \/ \E n \in Names, c \in Countries :
           call_query_university([Name |-> n, Country |-> c])
    \/ \E o \in HttpOutcomes, g \in PlaceIds \cup {""} : step_autocomplete(o, g)
    \/ \E o \in HttpOutcomes : step_place_details(o)

SpecQuery == InitQuery /\ [][NextQuery]_vars

\* ------------------------------------- main_global.py, main, and checkpoint.py
\* The runs of main() on one roster, one after the other, on the checkpoint
\* and cache files the run before left.  The success and failure counts and
\* failed_names of the checkpoint are left out: no step reads them back other
\* than to print or to save them again.

\* How many runs of main() one behaviour has.
MaxRuns == 3

\* `if idx % 10 == 0`
SAVE_EVERY == 10

NAME_Z == <<"Z">>

Row(name) == [Name |-> name, Country |-> <<>>]

\* read_rankings_csv(RANKINGS_CSV): names that repeat, with and without
\* blanks, and a row without a name.
universities ==
    << Row(NAME_X), Row(NAME_Y), Row(<<>>), Row(<<"X", " ">>), Row(NAME_Z),
       Row(NAME_Y), Row(NAME_X), Row(NAME_Z), Row(NAME_Y), Row(NAME_X),
       Row(NAME_Z) >>

\* CheckpointManager._create_empty_checkpoint
create_empty_checkpoint == [processed_count |-> 0, processed_names |-> <<>>]

\* CheckpointManager.save_checkpoint
save_checkpoint(count, names) == [processed_count |-> count, processed_names |-> names]

\* CheckpointManager.get_processed_names: set(processed_names)
get_processed_names(cp) == {cp.processed_names[i] : i \in DOMAIN cp.processed_names}

\* Mutant of is_completed: the run is over once any row has been processed.
is_completed_early(cp, total_count) == cp.processed_count >= 1

\* CheckpointManager.is_completed
is_completed(cp, total_count) == cp.processed_count >= total_count

\* list(processed_names): the names of the set in some order, which no later
\* step depends on; here the order of their first rows.
RECURSIVE list_of(_, _)
list_of(names, i) ==
    IF i > Len(universities) THEN <<>>
    ELSE LET n == name_of(universities[i])
         IN  IF n \in names /\ \A j \in 1..(i - 1) : name_of(universities[j]) # n
             THEN <<n>> \o list_of(names, i + 1)
             ELSE list_of(names, i + 1)

\* Mutant of already_processed: no row is skipped.
already_processed_never(name, names) == FALSE

\* `if name in processed_names`
already_processed(name, names) == name \in names

\* main() loads the checkpoint; it skips the loop when the checkpoint counts
\* as many rows as the roster has, and enters it otherwise.
start_run ==
    /\ run_pc = "start"
    /\ processed_names' = get_processed_names(checkpoint)
    /\ passed' = <<>>
    /\ idx' = 0
    /\ IF is_completed(checkpoint, Len(universities))
       THEN /\ run_pc' = "skipped"
            /\ UNCHANGED processed_list
       ELSE /\ run_pc' = "loop"
            /\ processed_list' = list_of(get_processed_names(checkpoint), 1)
    /\ UNCHANGED <<checkpoint, runs, query_vars, reconciler_vars, main_vars,
                   api_vars, parser_vars, worker_vars>>

\* One row of the for loop up to the query_university call: a row whose name
\* is in processed_names is skipped (it only reads cache.get(name)).
take_row ==
    /\ run_pc = "loop"
    /\ idx < Len(universities)
    /\ idx' = idx + 1
    /\ LET row == universities[idx + 1]
       IN  IF already_processed(name_of(row), processed_names)
           THEN UNCHANGED <<run_pc, passed, query_vars>>
           ELSE /\ run_pc' = "query"
                /\ passed' = Append(passed, idx + 1)
                /\ enter_query_university(row)
    /\ UNCHANGED <<checkpoint, processed_names, processed_list, runs,
                   reconciler_vars, main_vars, api_vars, parser_vars, worker_vars>>

\* query_university has returned: the name joins processed_list, and every
\* tenth row the cache and the checkpoint are saved.
row_result ==
    /\ run_pc = "query"
    /\ query_pc = "idle"
    /\ run_pc' = "loop"
    /\ processed_list' = Append(processed_list, name_of(universities[idx]))
    /\ checkpoint' = IF idx % SAVE_EVERY = 0
                     THEN save_checkpoint(idx, processed_list')
                     ELSE checkpoint
    /\ api_log' = <<>>
    /\ UNCHANGED <<idx, processed_names, passed, runs, cache, query_pc, university,
                   place_id, query_result, api_attempt, reconciler_vars, main_vars,
                   api_vars, parser_vars, worker_vars>>

\* KeyboardInterrupt or another exception inside the try block: the handler
\* saves the cache and a checkpoint that counts len(processed_list).
interrupted ==
    /\ run_pc \in {"loop", "query"}
    /\ run_pc' = "interrupted"
    /\ checkpoint' = save_checkpoint(Len(processed_list), processed_list)
    /\ query_pc' = "idle"
    /\ api_attempt' = 0
    /\ api_log' = <<>>
    /\ UNCHANGED <<idx, processed_names, processed_list, passed, runs, cache,
                   university, place_id, query_result, reconciler_vars, main_vars,
                   api_vars, parser_vars, worker_vars>>

\* The for loop has no row left: the last save counts len(universities).
loop_finished ==
    /\ run_pc = "loop"
    /\ idx = Len(universities)
    /\ run_pc' = "finished"
    /\ checkpoint' = save_checkpoint(Len(universities), processed_list)
    /\ UNCHANGED <<idx, processed_names, processed_list, passed, runs, query_vars,
                   reconciler_vars, main_vars, api_vars, parser_vars, worker_vars>>

\* main() is run again on the files the run before left.
run_again ==
    /\ run_pc \in {"skipped", "interrupted", "finished"}
    /\ runs < MaxRuns
    /\ runs' = runs + 1
    /\ run_pc' = "start"
    /\ UNCHANGED <<checkpoint, idx, processed_names, processed_list, passed,
                   query_vars, reconciler_vars, main_vars, api_vars, parser_vars,
                   worker_vars>>

\* The first run: no checkpoint file and no cache file.
InitResume ==
    /\ checkpoint = create_empty_checkpoint
    /\ run_pc = "start" /\ runs = 1 /\ idx = 0
    /\ processed_names = {} /\ processed_list = <<>> /\ passed = <<>>
    /\ cache = <<>> /\ query_pc = "idle"
    /\ university = [Name |-> <<>>, Country |-> <<>>]
    /\ place_id = "" /\ query_result = Pending /\ api_attempt = 0 /\ api_log = <<>>
    /\ reconciler_idle /\ main_idle /\ api_idle /\ parser_idle /\ worker_idle

NextResume ==
    \/ start_run
    \/ take_row
    \/ \E o \in HttpOutcomes, g \in PlaceIds \cup {""} :
           run_pc = "query" /\ step_autocomplete(o, g)
    \/ \E o \in HttpOutcomes : run_pc = "query" /\ step_place_details(o)
    \/ row_result
    \/ interrupted
    \/ loop_finished
    \/ run_again

SpecResume == InitResume /\ [][NextResume]_vars

\* ------------------------------------------------------------ the claims

campuses_of(school_name) == final_universities_data_map[school_name].campuses

slots_of(school_name) == final_universities_data_map[school_name].campus_map_temp

ids_in(campuses) == {campuses[i].id : i \in DOMAIN campuses}

ids_of(school_name) == ids_in(campuses_of(school_name))

\* The ids of the places the search returns.
PoiIds == {POIS[k].id : k \in Pois}

\* The place of the latest call, and whether there was a call.
Called == last_call # NoCall

\* C1: no place id is in the campus lists of two different institutions, and
\* no place id occurs twice in one campus list.
C1_PlaceInOneList ==
    /\ \A s1, s2 \in Schools : s1 # s2 => ids_of(s1) \cap ids_of(s2) = {}
    /\ \A s \in Schools : \A i, j \in DOMAIN campuses_of(s) :
           i # j => campuses_of(s)[i].id # campuses_of(s)[j].id

\* C1 witness: the latest call was accepted for a place that another school
\* held before (that school's slot still names the place), and that school
\* still holds another campus.
C1_Witness ==
    /\ Called /\ ret = TRUE
    /\ \E s \in Schools \ {last_call.school_name} :
           /\ campuses_of(s) # <<>>
           /\ \E n \in DOMAIN slots_of(s) :
                  slots_of(s)[n].poi_id = POIS[last_call.poi].id

\* C2: within one campus list no two campuses share a name, None included.
C2_NamesDistinct ==
    \A s \in Schools : \A i, j \in DOMAIN campuses_of(s) :
        i # j => campuses_of(s)[i].name # campuses_of(s)[j].name

\* C2 witness: a school holds a None-named campus beside a named one, after
\* a place recorded for that school was displaced from its list.
C2_Witness ==
    \E s \in Schools :
        /\ \E i, j \in DOMAIN campuses_of(s) :
               campuses_of(s)[i].name = None /\ campuses_of(s)[j].name # None
        /\ \E p \in DOMAIN processed_pois_map :
               processed_pois_map[p].school_name = s /\ p \notin ids_of(s)

\* C3 as stated: processed_pois_map has an entry p -> I exactly when a campus
\* with id p is in I's campus list.
C3_OwnershipIffListed ==
    \A s \in Schools : \A p \in PoiIds :
        (dict_has(processed_pois_map, p) /\ processed_pois_map[p].school_name = s)
            <=> p \in ids_of(s)

\* C3 amended: every campus in I's list has the entry p -> I; an entry p -> I
\* whose place is not in I's list belongs to a place that is in no campus list
\* and whose name slot in I was taken by another place with a strictly shorter
\* title (the entry of a place displaced inside its school survives).
C3_OwnershipOrDisplaced ==
    /\ \A s \in Schools : \A p \in ids_of(s) :
           dict_has(processed_pois_map, p) /\ processed_pois_map[p].school_name = s
    /\ \A p \in DOMAIN processed_pois_map :
           LET s == processed_pois_map[p].school_name
               k == CHOOSE x \in Pois : POIS[x].id = p
               n == parse_campus_name_func[k][s]
           IN  \/ p \in ids_of(s)
               \/ /\ \A t \in Schools : p \notin ids_of(t)
                  /\ dict_has(slots_of(s), n)
                  /\ slots_of(s)[n].poi_id # p
                  /\ slots_of(s)[n].title_len < Len(POIS[k].title)

\* C3 witness: an entry survives for a place that is in no campus list.
C3_Witness ==
    \E p \in DOMAIN processed_pois_map : \A t \in Schools : p \notin ids_of(t)

\* C4 as stated: I's slot map has an entry name -> place id exactly when I's
\* campus list holds a campus with that id and that name.
C4_SlotIffListed ==
    \A s \in Schools : \A p \in PoiIds : \A k \in Pois :
        LET n == parse_campus_name_func[k][s]
        IN  (dict_has(slots_of(s), n) /\ slots_of(s)[n].poi_id = p)
                <=> (\E i \in DOMAIN campuses_of(s) :
                         campuses_of(s)[i].id = p /\ campuses_of(s)[i].name = n)

\* The campus list, the slots and the listed ids of a school after a step.
campuses_after(school_name) == final_universities_data_map'[school_name].campuses

slots_after(school_name) == final_universities_data_map'[school_name].campus_map_temp

ids_after(school_name) == ids_in(campuses_after(school_name))

\* The call a step makes: its school, its place, the parsed name, and what the
\* code read before the call.
StepSchool == last_call'.school_name

StepPoi == POIS[last_call'.poi]

StepName == parse_campus_name_func[last_call'.poi][StepSchool]

StepWellFormed == StepPoi.id # "" /\ StepPoi.title # <<>>

StepParsed == StepWellFormed /\ StepName # REJECT

StepOwned == dict_has(processed_pois_map, StepPoi.id)

StepSlotTaken == dict_has(slots_of(StepSchool), StepName)

\* this school's ratio against the recorded one, by cross-multiplication
StepRatioCmp ==
    Len(StepSchool) * processed_pois_map[StepPoi.id].prefix_ratio.den
        - processed_pois_map[StepPoi.id].prefix_ratio.num * Len(StepPoi.title)

StepUnchanged == UNCHANGED <<final_universities_data_map, processed_pois_map>>

Last(seq) == seq[Len(seq)]

Front(seq) == SubSeq(seq, 1, Len(seq) - 1)

\* C5: a call that returns True has detached the place from every other
\* school, detached the previous occupant of the slot, appended the campus and
\* updated both tables; a call that returns False has changed no campus list,
\* no ownership entry and no slot; a place leaves a list only in a call that
\* returns True, as the place of the call (then listed in the call's school)
\* or as the previous occupant of its slot.
C5_AllOrNothing ==
    [][ /\ ret' = TRUE =>
            /\ StepParsed
            /\ campuses_after(StepSchool) # <<>>
            /\ Last(campuses_after(StepSchool)).id = StepPoi.id
            /\ Last(campuses_after(StepSchool)).name = StepName
            /\ Front(campuses_after(StepSchool)) =
                   SelectSeq(campuses_of(StepSchool),
                             LAMBDA c : ~(StepSlotTaken /\
                                 c.id = slots_of(StepSchool)[StepName].poi_id))
            /\ \A t \in Schools \ {StepSchool} :
                   /\ StepPoi.id \notin ids_after(t)
                   /\ campuses_after(t) =
                          SelectSeq(campuses_of(t), LAMBDA c : c.id # StepPoi.id)
                   /\ slots_after(t) = slots_of(t)
            /\ dict_has(processed_pois_map', StepPoi.id)
            /\ processed_pois_map'[StepPoi.id].school_name = StepSchool
            /\ \A p \in DOMAIN processed_pois_map \ {StepPoi.id} :
                   dict_has(processed_pois_map', p)
                       /\ processed_pois_map'[p] = processed_pois_map[p]
            /\ dict_has(slots_after(StepSchool), StepName)
            /\ slots_after(StepSchool)[StepName].poi_id = StepPoi.id
            /\ slots_after(StepSchool)[StepName].title_len = Len(StepPoi.title)
        /\ ret' = FALSE => StepUnchanged
        /\ \A t \in Schools : \A p \in ids_of(t) \ ids_after(t) :
               /\ ret' = TRUE
               /\ \/ p = StepPoi.id /\ p \in ids_after(StepSchool)
                  \/ /\ t = StepSchool /\ StepSlotTaken
                     /\ p = slots_of(StepSchool)[StepName].poi_id
      ]_vars

\* C5 witness: the latest call returned True after both detachments: another
\* school's slot still names the place, and a place recorded for the school
\* of the call is no longer in its list.
C5_Witness ==
    /\ Called /\ ret = TRUE
    /\ \E s \in Schools \ {last_call.school_name} : \E n \in DOMAIN slots_of(s) :
           slots_of(s)[n].poi_id = POIS[last_call.poi].id
    /\ \E p \in DOMAIN processed_pois_map :
           /\ processed_pois_map[p].school_name = last_call.school_name
           /\ p \notin ids_of(last_call.school_name)

\* C6 as stated: a call whose parse result is None leaves the campus list of
\* its school as it was.
C6_NoCampusNoOp ==
    [][ (StepWellFormed /\ StepName = None)
            => campuses_after(StepSchool) = campuses_of(StepSchool) ]_vars

\* C6 amended: a None parse result is reconciled like any other name: when the
\* place is owned with a ratio at least this school's, or the school's None
\* slot holds a title no longer than this one, the call returns False and
\* changes nothing; otherwise it returns True and appends a campus whose name
\* is None.
C6_NoCampusReconciled ==
    [][ (StepWellFormed /\ StepName = None) =>
            IF \/ (StepOwned /\ StepRatioCmp <= 0)
               \/ (StepSlotTaken /\
                     slots_of(StepSchool)[None].title_len <= Len(StepPoi.title))
            THEN ret' = FALSE /\ StepUnchanged
            ELSE /\ ret' = TRUE
                 /\ Len(campuses_after(StepSchool)) >= 1
                 /\ Last(campuses_after(StepSchool)).id = StepPoi.id
                 /\ Last(campuses_after(StepSchool)).name = None
      ]_vars

\* C6 witness: the latest call parsed to None, returned True, and its school
\* holds the None-named campus of the place.
C6_Witness ==
    /\ Called /\ ret = TRUE
    /\ parse_campus_name_func[last_call.poi][last_call.school_name] = None
    /\ \E i \in DOMAIN campuses_of(last_call.school_name) :
           /\ campuses_of(last_call.school_name)[i].id = POIS[last_call.poi].id
           /\ campuses_of(last_call.school_name)[i].name = None

\* C7: a call for a place whose ownership entry names a different school with
\* a ratio greater than or equal to this school's returns False and changes no
\* campus list and no table.
C7_GlobalCheck ==
    [][ ( /\ StepWellFormed /\ StepOwned
          /\ processed_pois_map[StepPoi.id].school_name # StepSchool
          /\ StepRatioCmp <= 0 )
            => (ret' = FALSE /\ StepUnchanged) ]_vars

\* C7 witness: the latest call was parsed, returned False, and the place is
\* listed in a different school whose recorded ratio equals this school's.
C7_Witness ==
    /\ Called /\ ret = FALSE
    /\ LET s == last_call.school_name
           poi == POIS[last_call.poi]
       IN  /\ poi.id # "" /\ parse_campus_name_func[last_call.poi][s] # REJECT
           /\ dict_has(processed_pois_map, poi.id)
           /\ processed_pois_map[poi.id].school_name # s
           /\ poi.id \in ids_of(processed_pois_map[poi.id].school_name)
           /\ Len(s) * processed_pois_map[poi.id].prefix_ratio.den
                  = processed_pois_map[poi.id].prefix_ratio.num * Len(poi.title)

\* C8 as stated: a call whose school has a slot for the parsed name with a
\* recorded title length greater than or equal to the current title's returns
\* False and changes nothing.
C8_LongerTitleWins ==
    [][ ( /\ StepParsed /\ StepSlotTaken
          /\ slots_of(StepSchool)[StepName].title_len >= Len(StepPoi.title) )
            => (ret' = FALSE /\ StepUnchanged) ]_vars

\* C8 amended: a call whose school has a slot for the parsed name with a
\* recorded title length less than or equal to the current title's returns
\* False and changes nothing; a slot changes hands only to a place whose title
\* is strictly shorter than the recorded one.
C8_LocalCheck ==
    [][ /\ ( /\ StepParsed /\ StepSlotTaken
             /\ slots_of(StepSchool)[StepName].title_len <= Len(StepPoi.title) )
               => (ret' = FALSE /\ StepUnchanged)
        /\ \A s \in Schools : \A n \in DOMAIN slots_of(s) :
               /\ dict_has(slots_after(s), n)
               /\ slots_after(s)[n] # slots_of(s)[n] =>
                      /\ s = StepSchool /\ n = StepName
                      /\ slots_after(s)[n].title_len < slots_of(s)[n].title_len
      ]_vars

\* C8 witness: the latest call returned False for a place no school owns,
\* whose title is exactly as long as the one recorded in the slot, which
\* another place holds.
C8_Witness ==
    /\ Called /\ ret = FALSE
    /\ LET s == last_call.school_name
           poi == POIS[last_call.poi]
           n == parse_campus_name_func[last_call.poi][s]
       IN  /\ poi.id # "" /\ n # REJECT
           /\ ~dict_has(processed_pois_map, poi.id)
           /\ dict_has(slots_of(s), n)
           /\ slots_of(s)[n].poi_id # poi.id
           /\ slots_of(s)[n].poi_id \in ids_of(s)
           /\ slots_of(s)[n].title_len = Len(poi.title)

\* C9: when school B calls for a place listed in a different school A with a
\* ratio strictly above the recorded one, and B has no slot for the name or
\* one with a longer title, the call returns True, the place is no longer in
\* A's list, it is the last campus of B's list, and the ownership entry names
\* B with B's ratio.
C9_Reassignment ==
    [][ ( /\ StepParsed /\ StepOwned
          /\ processed_pois_map[StepPoi.id].school_name # StepSchool
          /\ StepPoi.id \in ids_of(processed_pois_map[StepPoi.id].school_name)
          /\ StepRatioCmp > 0
          /\ StepSlotTaken =>
                 slots_of(StepSchool)[StepName].title_len > Len(StepPoi.title) )
            => /\ ret' = TRUE
               /\ StepPoi.id
                      \notin ids_after(processed_pois_map[StepPoi.id].school_name)
               /\ campuses_after(StepSchool) # <<>>
               /\ Last(campuses_after(StepSchool)).id = StepPoi.id
               /\ processed_pois_map'[StepPoi.id] =
                      [school_name |-> StepSchool,
                       prefix_ratio |-> [num |-> Len(StepSchool),
                                         den |-> Len(StepPoi.title)]]
      ]_vars

\* C9 witness: the latest call returned True, its place is the last campus of
\* its school and owned by it, and a school with a smaller ratio, whose slot
\* still names the place, no longer lists it.
C9_Witness ==
    /\ Called /\ ret = TRUE
    /\ LET s == last_call.school_name
           poi == POIS[last_call.poi]
       IN  /\ campuses_of(s) # <<>> /\ Last(campuses_of(s)).id = poi.id
           /\ processed_pois_map[poi.id].school_name = s
           /\ \E a \in Schools \ {s} :
                  /\ Len(a) < Len(s)
                  /\ poi.id \notin ids_of(a)
                  /\ \E n \in DOMAIN slots_of(a) : slots_of(a)[n].poi_id = poi.id

\* C10: a call whose place has an id and a title and whose parse result is
\* REJECT appends the place once to rejected_pois, returns False, and changes
\* no campus list and no table.
C10_RejectedRecorded ==
    [][ (StepWellFormed /\ StepName = REJECT) =>
            /\ Len(rejected_pois') = Len(rejected_pois) + 1
            /\ Front(rejected_pois') = rejected_pois
            /\ Last(rejected_pois') = StepPoi
            /\ ret' = FALSE
            /\ StepUnchanged
      ]_vars

\* C10 witness: the latest call parsed to REJECT and its place is the last of
\* two rejected places.
C10_Witness ==
    /\ Called /\ ret = FALSE
    /\ parse_campus_name_func[last_call.poi][last_call.school_name] = REJECT
    /\ Len(rejected_pois) = 2
    /\ Last(rejected_pois) = POIS[last_call.poi]

\* C11: a call for a place without an id or without a title returns False and
\* changes no campus list, no ownership entry, no slot and not the rejected
\* list.
C11_MalformedDropped ==
    [][ ~StepWellFormed =>
            /\ ret' = FALSE
            /\ StepUnchanged
            /\ UNCHANGED rejected_pois
      ]_vars

\* C11 witness: after campuses were accepted and a place was rejected, the
\* latest call was for a place with an id and an empty title.
C11_Witness ==
    /\ Called /\ ret = FALSE
    /\ POIS[last_call.poi].id # "" /\ POIS[last_call.poi].title = <<>>
    /\ processed_pois_map # <<>> /\ rejected_pois # <<>>

ApiEnded == api_result \in {"response_data", "None", "QuotaExceededError"}

\* C13: one request_tencent_api call makes at most MAX_RETRIES requests.get
\* calls, every rate-limit answer and every transient failure uses up one
\* iteration of the same loop, and the call ends with a response, with None
\* or with QuotaExceededError.
C13_BoundedAttempts ==
    /\ [](http_calls <= MAX_RETRIES)
    /\ [](api_result = "running" => http_calls = attempt)
    /\ [][ http_calls' = http_calls + 1 =>
              /\ rate_limited' = rate_limited + 1 => attempt' = attempt + 1
              /\ outcome' \in TransientFailures => attempt' = attempt + 1 ]_vars
    /\ <>ApiEnded
    /\ [][ApiEnded => UNCHANGED api_vars]_vars

\* C13 witness: the call ended with None after MAX_RETRIES requests, some
\* answered rate-limited and some failed.
C13_Witness ==
    /\ api_result = "None" /\ http_calls = MAX_RETRIES
    /\ rate_limited > 0 /\ rate_limited < MAX_RETRIES

\* C17 as stated: a requests.get call of the same request_tencent_api call
\* follows another only when that one answered rate-limited.
C17_RetryOnlyOnRateLimit ==
    [][ (http_calls' = http_calls + 1 /\ http_calls >= 1)
            => outcome = STATUS_RATE_LIMITED ]_vars

loop_continues_expected ==
    outcome = STATUS_RATE_LIMITED \/ outcome \in TransientFailures

\* C17 amended: a requests.get call follows another only when that one
\* answered rate-limited or failed with a timeout, an HTTP error or a request
\* exception; after status 0, status 121 and every other status there is no
\* further call; after a rate-limit answer or a failure that was not the
\* MAX_RETRIES-th request the call has not ended.
C17_RetryOnRateLimitOrFailure ==
    /\ [][ /\ (http_calls' = http_calls + 1 /\ http_calls >= 1)
               => loop_continues_expected
           /\ (outcome \in {STATUS_OK, STATUS_QUOTA, STATUS_OTHER})
               => http_calls' = http_calls ]_vars
    /\ []( (loop_continues_expected /\ http_calls < MAX_RETRIES)
               => api_result = "running" )

\* C17 witness: a second request was made after the first one timed out.
C17_Witness ==
    /\ http_calls = 2 /\ rate_limited = 0 /\ attempt = 1 /\ outcome = STATUS_OK

\* The names a report lists, how often a report lists a name, and whether the
\* two written reports are the schools of final_universities_data_map as they
\* stand, each in the report its campus list calls for.
names_in(report) == {report[i].name : i \in DOMAIN report}

occurrences(report, n) == Cardinality({i \in DOMAIN report : report[i].name = n})

ReportsWritten == pc \in {"exit", "done"}

ReportsMatchState ==
    /\ names_in(universities_with_campuses) \cup names_in(universities_without_campuses)
           = DOMAIN final_universities_data_map
    /\ \A i \in DOMAIN universities_with_campuses :
           /\ universities_with_campuses[i]
                  = final_universities_data_map[universities_with_campuses[i].name]
           /\ universities_with_campuses[i].campuses # <<>>
    /\ \A i \in DOMAIN universities_without_campuses :
           /\ universities_without_campuses[i]
                  = final_universities_data_map[universities_without_campuses[i].name]
           /\ universities_without_campuses[i].campuses = <<>>

QuotaSignalled ==
    \E i \in DOMAIN requested : requested[i].result = "QuotaExceededError"

\* C12: the step in which request_tencent_api raises QuotaExceededError
\* changes no campus list, no ownership entry and not the rejected list and
\* leads to the report; after it no page is requested, no place is processed
\* and no row is taken; the reports written are the schools registered at the
\* moment of the signal with the campuses they had then.
C12_QuotaAborts ==
    /\ [][ (Len(requested') = Len(requested) + 1
              /\ Last(requested').result = "QuotaExceededError")
               => /\ quota_exceeded' /\ pc' = "report"
                  /\ UNCHANGED <<final_universities_data_map, processed_pois_map,
                                 rejected_pois>> ]_vars
    /\ [][ QuotaSignalled =>
               UNCHANGED <<final_universities_data_map, processed_pois_map,
                           rejected_pois, requested, index, page_index, page_data>>
         ]_vars
    /\ []((QuotaSignalled /\ ReportsWritten) => ReportsMatchState)

\* C12 witness: the run has ended after the quota signal came on the second
\* page of the first row, whose school had a campus by then; later rows were
\* never taken.
C12_Witness ==
    /\ pc = "done" /\ quota_exceeded
    /\ Last(requested).row = 1 /\ Last(requested).page = 2
    /\ Last(requested).result = "QuotaExceededError"
    /\ index < Len(universities_list)
    /\ universities_with_campuses # <<>>

\* C14: the step in which request_tencent_api returns None changes no campus
\* list and no table and leaves the while loop for the for loop, which takes
\* the next row or ends; no later request is for the same row.
C14_FailedPageAbandons ==
    /\ [][ (Len(requested') = Len(requested) + 1 /\ Last(requested').result = "None")
               => /\ pc' = "loop"
                  /\ UNCHANGED <<final_universities_data_map, processed_pois_map,
                                 rejected_pois, index, quota_exceeded>> ]_vars
    /\ [][ pc = "loop" =>
               \/ index' = index + 1
               \/ index = Len(universities_list) /\ pc' = "report" ]_vars
    /\ [](\A i, j \in DOMAIN requested :
              (i < j /\ requested[i].result = "None")
                  => requested[j].row > requested[i].row)

\* C14 witness: the second page of the first row failed after its first page
\* gave the school a campus, which it still holds while a page of a later row
\* has been requested.
C14_Witness ==
    /\ Len(requested) >= 3
    /\ requested[2].row = 1 /\ requested[2].page = 2 /\ requested[2].result = "None"
    /\ requested[3].row > 1
    /\ final_universities_data_map[universities_list[1]].campuses # <<>>

\* C15 as stated: when the run has ended, every roster row with a non-empty
\* name is in exactly one of the two reports, once: the no-campuses report if
\* its campus list is empty, the accepted one otherwise.
C15_EveryRowReported ==
    pc = "done" =>
        \A r \in DOMAIN universities_list :
            LET n == universities_list[r]
            IN  n # <<>> =>
                    /\ occurrences(universities_with_campuses, n)
                           + occurrences(universities_without_campuses, n) = 1
                    /\ IF dict_has(final_universities_data_map, n)
                          /\ final_universities_data_map[n].campuses # <<>>
                       THEN occurrences(universities_with_campuses, n) = 1
                       ELSE occurrences(universities_without_campuses, n) = 1

\* C15 amended: when the run has ended, every roster row with a non-empty name
\* that the for loop has taken is in exactly one of the two reports, once (the
\* no-campuses report if its campus list is empty, the accepted one otherwise),
\* and a row the loop has not taken is in neither; a run without a quota
\* signal has taken every row.
C15_TakenRowsReported ==
    pc = "done" =>
        /\ \A r \in DOMAIN universities_list :
               LET n == universities_list[r]
               IN  n # <<>> =>
                       IF r <= index
                       THEN /\ occurrences(universities_with_campuses, n)
                                   + occurrences(universities_without_campuses, n) = 1
                            /\ IF final_universities_data_map[n].campuses # <<>>
                               THEN occurrences(universities_with_campuses, n) = 1
                               ELSE occurrences(universities_without_campuses, n) = 1
                       ELSE /\ occurrences(universities_with_campuses, n) = 0
                            /\ occurrences(universities_without_campuses, n) = 0
        /\ ~quota_exceeded => index = Len(universities_list)

\* C15 witness: the run ended on a quota signal after the first row, whose
\* school is in the accepted report, while the last row is in no report.
C15_Witness ==
    /\ pc = "done" /\ quota_exceeded /\ index = 1
    /\ occurrences(universities_with_campuses, universities_list[1]) = 1
    /\ occurrences(universities_with_campuses, universities_list[3]) = 0
    /\ occurrences(universities_without_campuses, universities_list[3]) = 0

\* C16: the process ends with status 1 if a quota signal occurred and with
\* status 0 otherwise, and the status is set only after the reports have been
\* written from final_universities_data_map as it stands.
C16_ExitStatus ==
    /\ [](pc = "done" => (exit_status = 1 <=> QuotaSignalled))
    /\ [](pc = "done" => exit_status \in {0, 1})
    /\ [](pc # "done" => exit_status = -1)
    /\ [][ pc' = "done" => (pc = "exit" /\ ReportsMatchState) ]_vars
    /\ [][ pc' = "exit" => pc = "report" ]_vars

\* C16 witness: the process has ended with status 1 and both reports hold a
\* school.
C16_Witness ==
    /\ pc = "done" /\ exit_status = 1
    /\ universities_with_campuses # <<>> /\ universities_without_campuses # <<>>

\* Bracket-insensitive matching as the specification words it: a full-width
\* parenthesis and its half-width counterpart are the same character, in the
\* name and in the title.
half_width(c) == IF c = "((" THEN "(" ELSE IF c = "))" THEN ")" ELSE c

normalized(str) == [i \in DOMAIN str |-> half_width(str[i])]

StartsWithBracketInsensitive(title, name) ==
    startswith(normalized(title), normalized(name))

Returned == parse_result # Pending

\* C18: when the title does not start with the institution name under
\* bracket-insensitive matching, parse_campus_name returns REJECT.
C18_NoPrefixRejected ==
    (Returned /\ ~StartsWithBracketInsensitive(parse_poi.title, parse_school_name))
        => parse_result = REJECT

\* C18 witness: the call returned REJECT for a title that shares its first
\* character with a two-character name and is at least as long, and does not
\* start with the name.
C18_Witness ==
    /\ Returned /\ parse_result = REJECT
    /\ Len(parse_school_name) = 2 /\ Len(parse_poi.title) >= 3
    /\ parse_poi.title[1] = parse_school_name[1]
    /\ ~StartsWithBracketInsensitive(parse_poi.title, parse_school_name)

\* What is left of the title after the matched prefix, trimmed.
RemainderAfterMatch ==
    strip(SubSeq(parse_poi.title,
                 prefix_match_end(parse_school_name, parse_poi.title) + 1,
                 Len(parse_poi.title)))

\* C19: when the pattern built from the name matches and the match is the
\* whole title, or the trimmed remainder is empty, 主校区 or 校本部,
\* parse_campus_name returns None.
C19_NoCampus ==
    ( /\ Returned
      /\ prefix_match_end(parse_school_name, parse_poi.title) # -1
      /\ \/ prefix_match_end(parse_school_name, parse_poi.title) = Len(parse_poi.title)
         \/ RemainderAfterMatch = <<>>
         \/ RemainderAfterMatch = <<"zhu", "xiao", "qu">>
         \/ RemainderAfterMatch = <<"xiao", "ben", "bu">> )
        => parse_result = None

\* C19 witness: the call returned None for a title that goes on after the
\* name with a space and 校本部.
C19_Witness ==
    /\ Returned /\ parse_result = None
    /\ prefix_match_end(parse_school_name, parse_poi.title) = Len(parse_school_name)
    /\ Len(parse_poi.title) = Len(parse_school_name) + 4
    /\ RemainderAfterMatch = <<"xiao", "ben", "bu">>

\* The strings that differ from str in the width of one parenthesis.
other_width(c) ==
    IF c = "(" THEN "((" ELSE IF c = "((" THEN "("
    ELSE IF c = ")" THEN "))" ELSE IF c = "))" THEN ")" ELSE c

WidthSwaps(str) ==
    {[str EXCEPT ![i] = other_width(str[i])] : i \in DOMAIN str}

\* C20 as stated: replacing a parenthesis of the name or of the title by its
\* other-width counterpart does not change whether the title is matched as
\* starting with the name.
C20_WidthInterchangeable ==
    Returned =>
        /\ \A n \in WidthSwaps(parse_school_name) :
               (prefix_match_end(n, parse_poi.title) # -1)
                   <=> (prefix_match_end(parse_school_name, parse_poi.title) # -1)
        /\ \A t \in WidthSwaps(parse_poi.title) :
               (prefix_match_end(parse_school_name, t) # -1)
                   <=> (prefix_match_end(parse_school_name, parse_poi.title) # -1)

\* The qualifiers of suffixes_to_remove a string ends with.
TrailingQualifiers(str) ==
    {k \in 1..Len(suffixes_to_remove) : endswith(str, suffixes_to_remove[k])}

\* A result a second call leaves as it is: absent, or a string that ends with
\* no listed qualifier and holds no 主校区 after its first character.
Settled(y) ==
    \/ y = None
    \/ /\ TrailingQualifiers(y) = {}
       /\ \A i \in 2..(Len(y) - 2) : SubSeq(y, i, i + 2) # <<"zhu", "xiao", "qu">>

\* C21 as stated: post_process_name applied to its own result gives that
\* result, for every input.
C21_Idempotent ==
    post_again # Pending => post_again = post_output

\* C21 amended: post_process_name applied to its own result gives that result
\* exactly when the result is absent or ends with no listed qualifier and
\* holds no 主校区 after its first character; otherwise the second call
\* shortens it.
C21_IdempotentWhenSettled ==
    post_again # Pending =>
        /\ Settled(post_output) <=> post_again = post_output
        /\ ~Settled(post_output) =>
               \/ post_again = None
               \/ Len(post_again) < Len(post_output)

\* C21 witness: both calls have returned the same string, which differs from
\* the input and ends in 校区 after a 主校区 was rewritten.
C21_Witness ==
    /\ post_again # Pending /\ post_again = post_output
    /\ post_output # None /\ post_output # post_input
    /\ contains(post_input, <<"zhu", "xiao", "qu">>)
    /\ endswith(post_output, <<"xiao", "qu">>)

\* What post_process_name does before and after the qualifier loop.
Cleaned(str) == remove_char(remove_char(strip(str), "-"), "&")

Finished(str) ==
    LET r == strip(sub_main_campus(str))
    IN  IF r # <<>> THEN r ELSE None

\* C22 as stated: the result is the cleaned input, with no qualifier or with
\* exactly one trailing listed qualifier removed, after the 主校区 rewriting.
C22_AtMostOneQualifier ==
    (post_output # Pending /\ post_input # <<>>) =>
        LET c == Cleaned(post_input)
        IN  \/ post_output = Finished(c)
            \/ /\ TrailingQualifiers(c) # {}
               /\ post_output = Finished(SubSeq(c, 1, Len(c) - 2))

\* The cleaned string after the qualifier loop: each listed qualifier, in the
\* order of the list, is cut once if the string as cut so far ends with it.
RECURSIVE CutInListOrder(_, _)
CutInListOrder(str, k) ==
    IF k > Len(suffixes_to_remove) THEN str
    ELSE CutInListOrder(
             IF endswith(str, suffixes_to_remove[k])
             THEN SubSeq(str, 1, Len(str) - Len(suffixes_to_remove[k]))
             ELSE str,
             k + 1)

\* C22 amended: the result is the cleaned input after every listed qualifier,
\* taken once in the order of the list, has been cut from the end of the
\* string if the string as cut so far ends with it, and after the 主校区
\* rewriting; several qualifiers go when they stand in the reverse of the list
\* order.
C22_QualifiersInListOrder ==
    (post_output # Pending /\ post_input # <<>>) =>
        post_output = Finished(CutInListOrder(Cleaned(post_input), 1))

\* C22 witness: the call has returned for an input made of two listed
\* qualifiers, the later of the list first, and both were cut.
C22_Witness ==
    /\ post_output = None
    /\ Len(post_input) = 4
    /\ \E j, k \in 1..Len(suffixes_to_remove) :
           j < k /\ post_input = suffixes_to_remove[k] \o suffixes_to_remove[j]

\* The call has returned after the name matched and left a remainder that is
\* split into segments.
SegmentsParsed ==
    /\ Returned
    /\ prefix_match_end(parse_school_name, parse_poi.title) # -1
    /\ prefix_match_end(parse_school_name, parse_poi.title) # Len(parse_poi.title)
    /\ RemainderAfterMatch \notin
           {<<>>, <<"zhu", "xiao", "qu">>, <<"xiao", "ben", "bu">>}

TitleSegments == split_parts(RemainderAfterMatch, 1, 1)

\* The normalized de-parenthesized content of the k-th segment.
SegmentContent(k) == post_process_name(extract_bracketed_content(TitleSegments[k]))

\* The segments the backward scan accepts as an anchor.
AnchorSegments ==
    {k \in 1..Len(TitleSegments) :
        \/ is_valid_campus_name(SegmentContent(k))
        \/ is_location_substring(SegmentContent(k), parse_poi)}

LastAnchor == CHOOSE k \in AnchorSegments : \A o \in AnchorSegments : o <= k

\* The de-parenthesized contents of the segments 1..n, in title order.
RECURSIVE ContentsUpTo(_)
ContentsUpTo(n) ==
    IF n = 0 THEN <<>>
    ELSE ContentsUpTo(n - 1) \o extract_bracketed_content(TitleSegments[n])

\* C23 as stated: the returned name is the normalization of the concatenation
\* of the de-parenthesized contents of the segments from the first up to the
\* last segment that qualifies as an anchor.
C23_AnchorOnLastSegment ==
    (SegmentsParsed /\ AnchorSegments # {}) =>
        parse_result = post_process_name(ContentsUpTo(LastAnchor))

\* C23 amended: the returned name is built from the concatenation of the
\* de-parenthesized contents of the segments from the first up to the last
\* segment that qualifies as an anchor, and from nothing after it: it is the
\* normalization of that concatenation, or, only when the anchor's normalized
\* content is a location substring, the normalization of the concatenation
\* followed by 校区.
C23_AnchorOnLastSegmentOrSuffixed ==
    (SegmentsParsed /\ AnchorSegments # {}) =>
        LET candidate == ContentsUpTo(LastAnchor)
        IN  IF is_location_substring(SegmentContent(LastAnchor), parse_poi)
            THEN parse_result \in {post_process_name(candidate),
                                   post_process_name(candidate \o <<"xiao", "qu">>)}
            ELSE parse_result = post_process_name(candidate)

\* C23 witness: the remainder is a parenthesized campus followed by a plain
\* segment that is no anchor, and the campus alone is returned.
C23_Witness ==
    /\ SegmentsParsed
    /\ Len(TitleSegments) = 2 /\ AnchorSegments = {1}
    /\ TitleSegments[1] = <<"(", "W", "xiao", "qu", ")">>
    /\ parse_result = <<"W", "xiao", "qu">>

\* A segment is an anchor in the sense of the validator that classifies an
\* empty or absent string as invalid: its normalized content is a non-empty
\* valid qualifier or a non-empty location substring.
QualifiesNonEmpty(k) ==
    /\ SegmentContent(k) \notin {None, <<>>}
    /\ \/ is_valid_campus_name(SegmentContent(k))
       \/ is_location_substring(SegmentContent(k), parse_poi)

\* C24: a segment whose normalized content is empty or absent is never an
\* anchor, so a remainder in which no segment is a valid qualifier or a
\* non-empty location substring is rejected.
C24_EmptyNeverAnchors ==
    (SegmentsParsed /\ \A k \in 1..Len(TitleSegments) : ~QualifiesNonEmpty(k))
        => parse_result = REJECT

PlainExcludedSegment ==
    /\ SegmentsParsed
    /\ Len(TitleSegments) = 1
    /\ ~(Head(RemainderAfterMatch) = "(" /\ Last(RemainderAfterMatch) = ")")
    /\ \/ contains(RemainderAfterMatch, <<"fu", "shu">>)
       \/ contains(RemainderAfterMatch, <<"yi", "yuan4">>)

\* C26: a title whose remainder is a single plain segment that holds 附属 or
\* 医院 and is not a substring of the place's province, city or district
\* parses to REJECT.
C26_ExclusionRejected ==
    ( /\ PlainExcludedSegment
      /\ ~contains(parse_poi.province, RemainderAfterMatch)
      /\ ~contains(parse_poi.city, RemainderAfterMatch)
      /\ ~contains(parse_poi.district, RemainderAfterMatch) )
        => parse_result = REJECT

\* C26 witness: the title is the name followed by 附属医院, which ends with
\* the valid ending 院, and the call returned REJECT.
C26_Witness ==
    /\ PlainExcludedSegment
    /\ RemainderAfterMatch = <<"fu", "shu", "yi", "yuan4">>
    /\ parse_result = REJECT

\* C27: in the inline loop of main.py, a place that leaves a campus list is,
\* after the same iteration, in the campus list of an institution that the
\* ownership table names as its owner; it is never left in no list while the
\* table still names the previous owner.
C27_DetachThenAttach ==
    [][\A s \in DOMAIN final_universities_data_map :
        \A p \in ids_in(final_universities_data_map[s].campuses) :
            p \notin ids_in(final_universities_data_map'[s].campuses) =>
                \E t \in DOMAIN final_universities_data_map' :
                    /\ p \in ids_in(final_universities_data_map'[t].campuses)
                    /\ dict_has(processed_pois_map', p)
                    /\ processed_pois_map'[p].school_name = t]_vars

\* The latest call found a campus of the same name in its school's slots, with
\* a title no longer than the place's: the local check turns it down.
StepLocalCheck ==
    /\ StepSlotTaken
    /\ slots_of(StepSchool)[StepName].title_len <= Len(StepPoi.title)

\* C28 as stated: whenever an institution has attempted a place with a parse
\* other than REJECT, no institution with a lower ratio (a shorter name, the
\* title being the same) holds the place in its campus list, and the place
\* moves between lists only towards a ratio that is at least as high; so at
\* the end of any run the place is with the highest ratio among the attempts.
C28_HighestRatioOwns ==
    [][/\ StepParsed =>
              \A s \in Schools :
                  Len(s) < Len(StepSchool) => StepPoi.id \notin ids_after(s)
       /\ \/ StepUnchanged
          \/ \A s, t \in Schools : \A id \in ids_of(s) \cap ids_after(t) :
                 Len(s) <= Len(t)]_vars

\* C28 amended: the same for every attempt that the local check did not turn
\* down; an attempt of an institution that already holds a campus of the
\* parsed name with a title no longer than the place's changes nothing and
\* leaves the place where it is, whatever the ratios.  At the end of a run a
\* listed place is with the highest ratio among the institutions whose
\* attempt on it was parsed and not turned down by the local check.
C28_HighestRatioOwnsUnlessLocal ==
    [][/\ (StepParsed /\ ~StepLocalCheck) =>
              \A s \in Schools :
                  Len(s) < Len(StepSchool) => StepPoi.id \notin ids_after(s)
       /\ (StepParsed /\ StepLocalCheck) => (ret' = FALSE /\ StepUnchanged)
       /\ \/ StepUnchanged
          \/ \A s, t \in Schools : \A id \in ids_of(s) \cap ids_after(t) :
                 Len(s) <= Len(t)]_vars

\* C28 witness: the latest call was an attempt of the institution with the
\* shorter name on a place that an institution with a longer name holds, made
\* after that institution took the place from it, and the place stayed.
C28_Witness ==
    /\ Called /\ ret = FALSE
    /\ POIS[last_call.poi].id # ""
    /\ parse_campus_name_func[last_call.poi][last_call.school_name] # REJECT
    /\ \E s \in Schools :
           /\ Len(s) > Len(last_call.school_name)
           /\ POIS[last_call.poi].id \in ids_of(s)
    /\ \E n \in DOMAIN slots_of(last_call.school_name) :
           slots_of(last_call.school_name)[n].poi_id = POIS[last_call.poi].id

\* A pair of a well-formed place and an institution that parses it.
ParsedPair(k, s) ==
    /\ POIS[k].id # "" /\ POIS[k].title # <<>>
    /\ parse_campus_name_func[k][s] # REJECT

\* The pair is settled: the place is owned with a ratio no lower than the
\* institution's, or the institution holds a campus of the parsed name with a
\* title no longer than the place's.
PairSettled(k, s) ==
    \/ /\ dict_has(processed_pois_map, POIS[k].id)
       /\ Len(s) * processed_pois_map[POIS[k].id].prefix_ratio.den
              <= processed_pois_map[POIS[k].id].prefix_ratio.num * Len(POIS[k].title)
    \/ /\ dict_has(slots_of(s), parse_campus_name_func[k][s])
       /\ slots_of(s)[parse_campus_name_func[k][s]].title_len <= Len(POIS[k].title)

\* A call touches only what the pairs of its place and of its institution
\* depend on: the ownership entries of the other places and the slots of the
\* other institutions are as before.
StepFrame ==
    /\ \A id \in DOMAIN processed_pois_map :
           id # StepPoi.id =>
               /\ id \in DOMAIN processed_pois_map'
               /\ processed_pois_map'[id] = processed_pois_map[id]
    /\ \A s \in Schools : s # StepSchool => slots_after(s) = slots_of(s)

\* C29: with a fixed title per place id, a pair of a place and an institution
\* is accepted at most once.  Stated step by step: an attempt that is accepted,
\* or turned down by the global or the local check, leaves the pair settled; a
\* settled pair stays settled whatever call follows (the pairs of the call's
\* place and of the call's institution are compared before and after, the
\* others depend on nothing the call changes); and a call for a settled pair
\* returns False and changes no campus list, no ownership entry, no slot and
\* no rejected record.
C29_AcceptedAtMostOnce ==
    [][/\ StepParsed => PairSettled(last_call.poi, last_call.school_name)'
       /\ \/ StepUnchanged
          \/ /\ StepFrame
             /\ \A s \in Schools :
                    ( /\ ParsedPair(last_call'.poi, s)
                      /\ PairSettled(last_call'.poi, s) )
                        => PairSettled(last_call.poi, s)'
             /\ \A k \in Pois :
                    (ParsedPair(k, StepSchool) /\ PairSettled(k, StepSchool))
                        => PairSettled(k, last_call.school_name)'
       /\ (StepParsed /\ PairSettled(last_call'.poi, StepSchool)) =>
              /\ ret' = FALSE
              /\ StepUnchanged
              /\ UNCHANGED rejected_pois]_vars

\* C29 witness: the latest call returned False for a place that is in the
\* campus list of the call's own institution, which accepted it before.
C29_Witness ==
    /\ Called /\ ret = FALSE
    /\ POIS[last_call.poi].id \in ids_of(last_call.school_name)

\* C30: an ownership entry, once created, is never removed, and a step that
\* changes it stores a strictly larger ratio.
C30_RatioNeverDecreases ==
    [][\A id \in DOMAIN processed_pois_map :
          /\ id \in DOMAIN processed_pois_map'
          /\ \/ processed_pois_map'[id] = processed_pois_map[id]
             \/ processed_pois_map[id].prefix_ratio.num
                    * processed_pois_map'[id].prefix_ratio.den
                 < processed_pois_map'[id].prefix_ratio.num
                    * processed_pois_map[id].prefix_ratio.den]_vars

\* C30 witness: the latest call overwrote the entry of a place that another
\* institution, whose slot still names it, owned with a lower ratio.
C30_Witness ==
    /\ Called /\ ret = TRUE
    /\ processed_pois_map[POIS[last_call.poi].id].school_name = last_call.school_name
    /\ \E s \in Schools :
           /\ Len(s) < Len(last_call.school_name)
           /\ \E n \in DOMAIN slots_of(s) :
                  slots_of(s)[n].poi_id = POIS[last_call.poi].id

\* C31: every campus in an institution's campus list is backed by both
\* tables: the ownership table names the institution for the campus's place
\* id, and the institution's slot for the campus's name points to that id.
C31_CampusBacked ==
    \A s \in Schools : \A i \in DOMAIN campuses_of(s) :
        LET c == campuses_of(s)[i]
        IN  /\ dict_has(processed_pois_map, c.id)
            /\ processed_pois_map[c.id].school_name = s
            /\ dict_has(slots_of(s), c.name)
            /\ slots_of(s)[c.name].poi_id = c.id

\* C31 witness: an institution holds a campus taken from another institution,
\* whose slot still names the place, and that other institution holds a
\* campus with the name None.
C31_Witness ==
    \E s, t \in Schools :
        /\ s # t
        /\ \E n \in DOMAIN slots_of(t) : slots_of(t)[n].poi_id \in ids_of(s)
        /\ \E i \in DOMAIN campuses_of(t) : campuses_of(t)[i].name = None

\* C32: every name parse_campus_name returns, other than None and REJECT,
\* ends with one of the whitelisted suffix words and holds neither 附属 nor
\* 医院.
C32_ReturnedNameValid ==
    (Returned /\ parse_result \notin {None, REJECT}) =>
        /\ \E k \in 1..Len(valid_endings) : endswith(parse_result, valid_endings[k])
        /\ ~contains(parse_result, <<"fu", "shu">>)
        /\ ~contains(parse_result, <<"yi", "yuan4">>)


\* The requests made for roster row r, in the order they were made.
RowRequests(r) == SelectSeq(requested, LAMBDA e : e.row = r)

\* Every request made for row r got a response.
RowAllFetched(r) ==
    \A i \in DOMAIN RowRequests(r) : RowRequests(r)[i].result = "response_data"

\* The while loop of row r is running.
RowLooping(r) == index = r /\ pc \in {"request", "pois"}

\* The while loop of row r has been entered and left.
RowOver(r) == RowRequests(r) # <<>> /\ r <= index /\ ~RowLooping(r)

\* max(1, ceil(count / PAGE_SIZE)) for the count of the response to page 1.
RowPages(r) ==
    LET n == (RowRequests(r)[1].count + PAGE_SIZE - 1) \div PAGE_SIZE
    IN  IF n < 1 THEN 1 ELSE n

\* The rank of the while loop of row r: before the first response; then the
\* pages left, whether the page is still to be requested, and the places of
\* the page still to be handled.
LoopRank(r) ==
    IF RowRequests(r) = <<>>
    THEN <<1, 0, 0, 0>>
    ELSE <<0, RowPages(r) - page_index, IF pc = "request" THEN 1 ELSE 0,
           Len(page_data)>>

\* Lexicographic order on ranks.
RankLess(a, b) ==
    \E k \in 1..4 : a[k] < b[k] /\ \A j \in 1..(k - 1) : a[j] = b[j]

\* C34: for a roster row whose page fetches all get a response, the pages
\* requested are 1, 2, ... in increasing order, each once, never beyond
\* max(1, ceil(count / PAGE_SIZE)) for the count of the first response, and
\* exactly up to it once the loop is over (so a count of 0 makes one request);
\* and the while loop of any row terminates: its rank is a tuple of naturals
\* that every step inside the loop makes strictly smaller.
C34_PagesRequested ==
    /\ [](\A r \in DOMAIN universities_list :
             (RowRequests(r) # <<>> /\ RowAllFetched(r)) =>
                 /\ \A i \in DOMAIN RowRequests(r) : RowRequests(r)[i].page = i
                 /\ Len(RowRequests(r)) <= RowPages(r)
                 /\ RowOver(r) => Len(RowRequests(r)) = RowPages(r))
    /\ [](\A r \in DOMAIN universities_list :
             RowLooping(r) => \A k \in 1..4 : LoopRank(r)[k] >= 0)
    /\ [][\A r \in DOMAIN universities_list :
             (RowLooping(r) /\ RowLooping(r)') => RankLess(LoopRank(r)', LoopRank(r))]_vars

\* Row 1 reported 41 places and was asked for on pages 1, 2, 3; row 3 reported
\* none and was asked for once; both loops are over.
C34_Witness ==
    /\ RowOver(1) /\ RowAllFetched(1)
    /\ RowRequests(1)[1].count = 41 /\ Len(RowRequests(1)) = 3
    /\ RowOver(3) /\ RowAllFetched(3)
    /\ RowRequests(3)[1].count = 0 /\ Len(RowRequests(3)) = 1


\* The strings the call hands to is_valid_campus_name: each segment's
\* post-processed content, and the post-processed joins up to each segment.
NamesChecked ==
    LET match_end == prefix_match_end(parse_school_name, parse_poi.title)
        remaining_title ==
            IF match_end = -1 THEN <<>>
            ELSE strip(SubSeq(parse_poi.title, match_end + 1, Len(parse_poi.title)))
        parts == split_parts(remaining_title, 1, 1)
    IN  {post_process_name(extract_bracketed_content(parts[i])) : i \in DOMAIN parts}
        \cup {post_process_name(join_parts(parts, i)) : i \in DOMAIN parts}

\* C37: the parse_campus_name of main.py returns what the one of
\* campus_parser.py returns, for every place and institution name; the two
\* is_valid_campus_name helpers disagree on the empty string, which no call
\* hands to them.
C37_SameResult ==
    /\ is_valid_campus_name_main(<<>>) /\ ~is_valid_campus_name(<<>>)
    /\ Returned =>
           /\ parse_result = parse_campus_name_main(parse_poi, parse_school_name)
           /\ <<>> \notin NamesChecked

\* A call that returned a name from a title with a segment whose content
\* post-processes to nothing (None is what the helpers were given for it).
C37_Witness ==
    /\ Returned /\ parse_result \notin {None, REJECT}
    /\ None \in NamesChecked


\* A place id is in the campus lists of two institutions.
InTwoLists == \E s1, s2 \in Schools : s1 # s2 /\ ids_of(s1) \cap ids_of(s2) # {}

\* The worker taking the step commits on a previous_global_match that
\* processed_pois_map no longer holds.
StaleCommit ==
    \E w \in Schools :
        /\ workers[w].at = "checked" /\ workers'[w].at = "idle"
        /\ workers[w].previous_global_match #
               previous_global_match_of(processed_pois_map, POIS[workers[w].poi].id)

\* Every listed campus is the one processed_pois_map records for its school.
ListedAreOwned ==
    \A s \in Schools : \A p \in ids_of(s) :
        dict_has(processed_pois_map, p) /\ processed_pois_map[p].school_name = s

\* C33: with every process_poi_data call of the concurrent workers one
\* critical section, no place id is in two campus lists or twice in one, and
\* no campus list holds a name twice, in any interleaving of the calls.  With
\* the read of processed_pois_map in an earlier critical section than the
\* mutations, a place id comes to be in two institutions' lists (the witness
\* is such a state), and from a state where the lists agree with
\* processed_pois_map only by a commit whose read has gone stale.
C33_WholeCallsKeepInvariants ==
    /\ [](critical_section = "whole" => (C1_PlaceInOneList /\ C2_NamesDistinct))
    /\ [][(ListedAreOwned /\ ~InTwoLists /\ InTwoLists')
              => (critical_section = "split" /\ StaleCommit)]_vars

\* The read was outside the critical section of the mutations, and one place
\* id is in the campus lists of two institutions.
C33_Witness == critical_section = "split" /\ InTwoLists


\* The latest step made an API method call or an HTTP request.
ApiContacted ==
    /\ Len(api_log') > Len(api_log)
    /\ \E i \in (Len(api_log) + 1)..Len(api_log') :
           api_log'[i].kind # "query_university"

\* The latest step ended a query_university call.
QueryCompleted ==
    /\ Len(api_log') > Len(api_log)
    /\ query_pc' = "idle"

\* The api.autocomplete calls made for the cache key name.
AutocompleteCalls(name) ==
    Len(SelectSeq(api_log, LAMBDA e : e.kind = "autocomplete" /\ e.name = name))

\* The HTTP requests posted to the Autocomplete service for the cache key.
AutocompletePosts(name) ==
    Len(SelectSeq(api_log, LAMBDA e : e.kind = "post" /\ e.name = name))

\* C35: query_university calls the API only for a name that is not in the
\* cache; a call for a non-empty name that returns leaves the name in the
\* cache with what it returned (the result, or None after any failure); so
\* over any sequence of calls on one cache api.autocomplete is called at most
\* once per name (each call posting at most max_retries requests), and a name
\* cached with None is not looked up again.
C35_CacheStopsRequests ==
    /\ [][ApiContacted => ~cache_has(cache, name_of(university'))]_vars
    /\ [][(QueryCompleted /\ name_of(university') # <<>>) =>
              /\ cache_has(cache', name_of(university'))
              /\ cache_get(cache', name_of(university')) = query_result'
              /\ query_result' # Pending]_vars
    /\ [](\A n \in Names :
             /\ AutocompleteCalls(strip(n)) <= 1
             /\ AutocompletePosts(strip(n)) <= max_retries)

\* The lookup of X failed after three requests, and a later call for the
\* same name returned None from the cache: one autocomplete call is logged.
C35_Witness ==
    /\ query_pc = "idle"
    /\ cache_has(cache, NAME_X) /\ cache_get(cache, NAME_X) = None
    /\ AutocompleteCalls(NAME_X) = 1
    /\ AutocompletePosts(NAME_X) = max_retries
    /\ Len(SelectSeq(api_log,
                     LAMBDA e : e.kind = "query_university" /\ e.name = NAME_X)) = 2


\* The roster rows whose name is not in the processed_names loaded at
\* start-up, in roster order.
RECURSIVE RowsToPass(_)
RowsToPass(i) ==
    IF i > Len(universities) THEN <<>>
    ELSE IF name_of(universities[i]) \in processed_names
         THEN RowsToPass(i + 1)
         ELSE <<i>> \o RowsToPass(i + 1)

\* C36: in a run of main(), no API call or request is made for a row whose
\* name is in the processed_names of the checkpoint loaded at start-up (such
\* a row is never handed to query_university); the rows handed to
\* query_university are, in roster order and each once, the other rows up to
\* the row in hand, and all of them once the loop has run to its end; a run
\* that skips the loop because the checkpoint is complete has no such row.
C36_ResumeSkipsProcessed ==
    /\ [][ApiContacted =>
              /\ run_pc' = "query"
              /\ name_of(universities[idx']) \notin processed_names'
              /\ university' = universities[idx']]_vars
    /\ [](run_pc \in {"loop", "query", "interrupted", "finished"} =>
             /\ Len(passed) <= Len(RowsToPass(1))
             /\ passed = SubSeq(RowsToPass(1), 1, Len(passed))
             /\ \A i \in DOMAIN passed : passed[i] <= idx
             /\ \A r \in 1..idx :
                    name_of(universities[r]) \notin processed_names
                        => \E i \in DOMAIN passed : passed[i] = r)
    /\ [](run_pc = "finished" => passed = RowsToPass(1))
    /\ [](run_pc = "skipped" => RowsToPass(1) = <<>>)

\* A resumed run has finished: it skipped rows named in the checkpoint, one
\* of them a name whose lookup had failed, and passed the other rows.
C36_Witness ==
    /\ runs >= 2 /\ run_pc = "finished"
    /\ passed # <<>>
    /\ \E n \in processed_names : n # <<>> /\ cache_get(cache, n) = None
    /\ Len(passed) < Len(universities)

=============================================================================
